---- MODULE Spec2Model ----
(***************************************************************************)
(* The multi-provider chat gateway of ai-draw-nexus: the /api/chat handler *)
(* in its three implementations (Pages function, Express server, Worker),  *)
(* the access gate, the effective configuration and the provider adapters. *)
(*                                                                         *)
(* JavaScript values are modelled as strings; the two values below stand   *)
(* for the JavaScript values undefined and null.  A value is falsy when it *)
(* is undefined, null or the empty string.                                 *)
(***************************************************************************)
EXTENDS Integers, Sequences, FiniteSets, TLC

Undefined == "<undefined>"
Null == "<null>"

\* JavaScript truthiness of a string-or-undefined value (the operand of ! and ||).
Truthy(v) == v \notin {Undefined, Null, ""}

\* JavaScript a || b.
Or(a, b) == IF Truthy(a) THEN a ELSE b

----------------------------------------------------------------------------
(* Input domains.                                                          *)

Impls == {"pages", "express", "worker"}

\* process.env / context.env as the deployment sets it: the provider, which
\* may be one the gateway does not know, and the access password may each be
\* unset; the API key, the base URL and the
\* model id are set or unset together.
RawEnvs ==
  {[AI_PROVIDER |-> p, AI_BASE_URL |-> c[1], AI_API_KEY |-> c[2], AI_MODEL_ID |-> c[3],
    ACCESS_PASSWORD |-> a] :
     p \in {Undefined, "openai", "anthropic", "gemini"},
     c \in {<<Undefined, Undefined, Undefined>>,
            <<"https://env.example/v1", "env-key", "env-model">>},
     a \in {Undefined, "", "secret"}}

\* The Worker's Env has no ACCESS_PASSWORD (src/worker/src/index.ts:1-6).
StartupEnvs(i) ==
  IF i = "worker" THEN {e \in RawEnvs : e.ACCESS_PASSWORD = Undefined} ELSE RawEnvs

\* The X-Access-Password header: absent, empty, right or wrong.
Passwords == {Null, "", "secret", "wrong"}

NoLLMConfig ==
  [present |-> FALSE, provider |-> Undefined, baseUrl |-> Undefined,
   apiKey |-> Undefined, modelId |-> Undefined]

\* The llmConfig field of the body: missing, an override with an API key and
\* any of its other fields empty, or one whose API key is empty or missing.
LLMConfigs ==
  {NoLLMConfig}
  \cup
  [present : {TRUE},
   provider : {Undefined, "openai", "anthropic"},
   baseUrl : {"", "https://user.example/v1"},
   apiKey : {"user-key"},
   modelId : {"", "user-model"}]
  \cup
  {[present |-> TRUE, provider |-> o[1], baseUrl |-> o[2], apiKey |-> k, modelId |-> o[3]] :
     k \in {Undefined, ""},
     o \in {<<"anthropic", "https://user.example/v1", "user-model">>,
            <<"openai", "", "">>}}

UserMessage == [role |-> "user", content |-> "hello"]

\* The messages field of the body: missing, a string, an empty array, an array.
MessagesValues ==
  {[kind |-> "undefined", items |-> <<>>],
   [kind |-> "string", items |-> <<>>],
   [kind |-> "array", items |-> <<>>],
   [kind |-> "array", items |-> <<UserMessage>>]}

StreamValues == {Undefined, "false", "true"}

\* A body that is not a JSON object (request.json() rejects, or the
\* destructuring of null throws) has parsed = FALSE.  The Express handler
\* is only ever given the object express.json() parsed.
NoRequest ==
  [parsed |-> FALSE, password |-> Null,
   messages |-> [kind |-> "undefined", items |-> <<>>],
   stream |-> Undefined, llmConfig |-> NoLLMConfig]

Requests(i) ==
  (IF i = "express" THEN {} ELSE {NoRequest})
  \cup
  [parsed : {TRUE},
   password : IF i = "worker" THEN {Null} ELSE Passwords,
   messages : MessagesValues,
   stream : StreamValues,
   llmConfig : IF i = "worker" THEN {NoLLMConfig} ELSE LLMConfigs]

----------------------------------------------------------------------------
(* The access gate and the effective configuration.                        *)

\* The messages of the errors, in English for those the source words in
\* Chinese (auth.ts:25, 30, 38, chat.ts:44).
ErrNoServerPassword == "server has no configured access password; use a custom LLM config"
ErrPasswordRequired == "enter the access password or configure a custom LLM"
ErrWrongPassword == "incorrect access password"
ErrAccessDenied == "access denied"
ErrMessagesRequired == "Invalid request: messages required"
ErrNoApiKey == "AI_API_KEY not configured"
ErrBadBody == "request body is not a JSON object"

\* validateAccess with the password rules ahead of the custom-LLM rule.
M_validateAccessPasswordFirst(password, configuredPassword, hasCustomLLM) ==
  IF ~Truthy(configuredPassword)
    THEN [valid |-> FALSE, error |-> ErrNoServerPassword]
  ELSE IF ~Truthy(password)
    THEN [valid |-> FALSE, error |-> ErrPasswordRequired]
  ELSE IF password = configuredPassword THEN [valid |-> TRUE, error |-> Undefined]
  ELSE IF hasCustomLLM THEN [valid |-> TRUE, error |-> Undefined]
  ELSE [valid |-> FALSE, error |-> ErrWrongPassword]

\* validateAccess with the supplied password looked at before the configured one.
M_validateAccessSuppliedFirst(password, configuredPassword, hasCustomLLM) ==
  IF hasCustomLLM THEN [valid |-> TRUE, error |-> Undefined]
  ELSE IF ~Truthy(password)
    THEN [valid |-> FALSE, error |-> ErrPasswordRequired]
  ELSE IF ~Truthy(configuredPassword)
    THEN [valid |-> FALSE, error |-> ErrNoServerPassword]
  ELSE IF password = configuredPassword THEN [valid |-> TRUE, error |-> Undefined]
  ELSE [valid |-> FALSE, error |-> ErrWrongPassword]

\* validateAccess without the comparison: any password supplied passes.
M_validateAccessAnyPassword(password, configuredPassword, hasCustomLLM) ==
  IF hasCustomLLM THEN [valid |-> TRUE, error |-> Undefined]
  ELSE IF ~Truthy(configuredPassword)
    THEN [valid |-> FALSE, error |-> ErrNoServerPassword]
  ELSE IF ~Truthy(password)
    THEN [valid |-> FALSE, error |-> ErrPasswordRequired]
  ELSE [valid |-> TRUE, error |-> Undefined]

validateAccess(password, configuredPassword, hasCustomLLM) ==
  IF hasCustomLLM THEN [valid |-> TRUE, error |-> Undefined]
  ELSE IF ~Truthy(configuredPassword)
    THEN [valid |-> FALSE, error |-> ErrNoServerPassword]
  ELSE IF ~Truthy(password)
    THEN [valid |-> FALSE, error |-> ErrPasswordRequired]
  ELSE IF password = configuredPassword THEN [valid |-> TRUE, error |-> Undefined]
  ELSE [valid |-> FALSE, error |-> ErrWrongPassword]

\* !!(llmConfig && llmConfig.apiKey)
HasCustomLLM(llmConfig) == llmConfig.present /\ Truthy(llmConfig.apiKey)

\* The object createEffectiveEnv builds from an override.
Overridden(env, llmConfig) ==
  [AI_PROVIDER |-> Or(llmConfig.provider, env.AI_PROVIDER),
   AI_BASE_URL |-> Or(llmConfig.baseUrl, env.AI_BASE_URL),
   AI_API_KEY |-> llmConfig.apiKey,
   AI_MODEL_ID |-> Or(llmConfig.modelId, env.AI_MODEL_ID),
   ACCESS_PASSWORD |-> Undefined]

\* createEffectiveEnv testing only !llmConfig, not !llmConfig.apiKey.
M_createEffectiveEnvAnyOverride(env, llmConfig) ==
  IF ~llmConfig.present THEN [result |-> env, env |-> env]
  ELSE [result |-> Overridden(env, llmConfig), env |-> env]

\* createEffectiveEnv taking the override whole, without the || env fallbacks.
M_createEffectiveEnvNoFallback(env, llmConfig) ==
  IF ~llmConfig.present \/ ~Truthy(llmConfig.apiKey) THEN [result |-> env, env |-> env]
  ELSE [result |-> [AI_PROVIDER |-> llmConfig.provider,
                    AI_BASE_URL |-> llmConfig.baseUrl,
                    AI_API_KEY |-> llmConfig.apiKey,
                    AI_MODEL_ID |-> llmConfig.modelId,
                    ACCESS_PASSWORD |-> Undefined],
        env |-> env]

\* createEffectiveEnv assigning the override into env (Object.assign(env, ...))
\* instead of building a new object.
M_createEffectiveEnvWritesBack(env, llmConfig) ==
  IF ~llmConfig.present \/ ~Truthy(llmConfig.apiKey) THEN [result |-> env, env |-> env]
  ELSE LET merged == [Overridden(env, llmConfig) EXCEPT
                        !.ACCESS_PASSWORD = env.ACCESS_PASSWORD]
       IN [result |-> merged, env |-> merged]

\* createEffectiveEnv(env, llmConfig): result is the object it returns, env is
\* its argument object as the call leaves it (the code assigns to none of
\* its fields).
createEffectiveEnv(env, llmConfig) ==
  IF ~llmConfig.present \/ ~Truthy(llmConfig.apiKey) THEN [result |-> env, env |-> env]
  ELSE [result |-> Overridden(env, llmConfig), env |-> env]

\* The Express server builds its Env from process.env on every request.
getEnv(processEnv) ==
  [AI_PROVIDER |-> Or(processEnv.AI_PROVIDER, "openai"),
   AI_BASE_URL |-> Or(processEnv.AI_BASE_URL, "https://api.openai.com/v1"),
   AI_API_KEY |-> Or(processEnv.AI_API_KEY, ""),
   AI_MODEL_ID |-> Or(processEnv.AI_MODEL_ID, "gpt-4o"),
   ACCESS_PASSWORD |-> processEnv.ACCESS_PASSWORD]

----------------------------------------------------------------------------
(* Provider adapters: the upstream request each one issues, and what it    *)
(* makes of the upstream's answer.                                         *)

MaxTokens == 64000

NoError == [msg |-> Undefined, detail |-> Undefined]
Err(m, d) == [msg |-> m, detail |-> d]

NoFetch ==
  [sent |-> FALSE, base |-> Undefined, path |-> Undefined, authHeader |-> Undefined,
   apiKey |-> Undefined, model |-> Undefined, max_tokens |-> 0, system |-> Undefined,
   messages |-> <<>>, stream |-> FALSE]

\* messages.find((m) => m.role === 'system'): the first system message, if any.
RECURSIVE FindSystem(_)
FindSystem(msgs) ==
  IF msgs = <<>> THEN Undefined
  ELSE IF Head(msgs).role = "system" THEN Head(msgs).content
  ELSE FindSystem(Tail(msgs))

\* messages.filter((m) => m.role !== 'system')
RECURSIVE NonSystem(_)
NonSystem(msgs) ==
  IF msgs = <<>> THEN <<>>
  ELSE IF Head(msgs).role # "system" THEN <<Head(msgs)>> \o NonSystem(Tail(msgs))
  ELSE NonSystem(Tail(msgs))

\* fetch(`${baseUrl}/chat/completions`, ...) of callOpenAI and streamOpenAI.
OpenAIFetch(messages, env, stream) ==
  [sent |-> TRUE, base |-> env.AI_BASE_URL, path |-> "/chat/completions",
   authHeader |-> "Authorization: Bearer", apiKey |-> env.AI_API_KEY,
   model |-> env.AI_MODEL_ID, max_tokens |-> MaxTokens, system |-> Undefined,
   messages |-> messages, stream |-> stream]

\* fetch(`${baseUrl}/messages`, ...) of callAnthropic and streamAnthropic.
AnthropicFetch(messages, env, stream) ==
  [sent |-> TRUE, base |-> env.AI_BASE_URL, path |-> "/messages",
   authHeader |-> "x-api-key", apiKey |-> env.AI_API_KEY,
   model |-> env.AI_MODEL_ID, max_tokens |-> MaxTokens,
   system |-> IF FindSystem(messages) = Undefined THEN "" ELSE FindSystem(messages),
   messages |-> NonSystem(messages), stream |-> stream]

\* What the upstream may answer: the fetch rejects (reached = FALSE), a
\* non-2xx status (two of them, with the same raw body text), or a 2xx
\* status whose body is not
\* JSON (valid = FALSE), is JSON without the list (choices / content), or
\* holds a list of entries.  An entry of the OpenAI list may lack its
\* message; the text of an entry may be missing, null, empty or a string.
Texts == {Undefined, Null, "", "hi"}

Entries == [hasMessage : BOOLEAN, text : Texts]

UsefulEntries == {e \in Entries : e.hasMessage \/ e.text = Undefined}

UpstreamResponses ==
  {[reached |-> FALSE, ok |-> FALSE, status |-> "", text |-> "", valid |-> FALSE,
    hasList |-> FALSE, list |-> <<>>, hasBody |-> FALSE],
   [reached |-> TRUE, ok |-> FALSE, status |-> "429", text |-> "rate limited",
    valid |-> FALSE, hasList |-> FALSE, list |-> <<>>, hasBody |-> FALSE],
   [reached |-> TRUE, ok |-> FALSE, status |-> "503", text |-> "rate limited",
    valid |-> FALSE, hasList |-> FALSE, list |-> <<>>, hasBody |-> FALSE],
   [reached |-> TRUE, ok |-> TRUE, status |-> "200", text |-> "", valid |-> FALSE,
    hasList |-> FALSE, list |-> <<>>, hasBody |-> TRUE],
   [reached |-> TRUE, ok |-> TRUE, status |-> "200", text |-> "", valid |-> TRUE,
    hasList |-> FALSE, list |-> <<>>, hasBody |-> TRUE],
   [reached |-> TRUE, ok |-> TRUE, status |-> "200", text |-> "", valid |-> TRUE,
    hasList |-> TRUE, list |-> <<>>, hasBody |-> TRUE]}
  \cup
  {[reached |-> TRUE, ok |-> TRUE, status |-> "200", text |-> "", valid |-> TRUE,
    hasList |-> TRUE, list |-> <<e>>, hasBody |-> TRUE] : e \in UsefulEntries}

\* The answers to a streaming request: the body is an event stream, or null.
StreamResponses ==
  {[reached |-> FALSE, ok |-> FALSE, status |-> "", text |-> "", valid |-> FALSE,
    hasList |-> FALSE, list |-> <<>>, hasBody |-> FALSE],
   [reached |-> TRUE, ok |-> FALSE, status |-> "429", text |-> "rate limited",
    valid |-> FALSE, hasList |-> FALSE, list |-> <<>>, hasBody |-> FALSE],
   [reached |-> TRUE, ok |-> FALSE, status |-> "503", text |-> "rate limited",
    valid |-> FALSE, hasList |-> FALSE, list |-> <<>>, hasBody |-> FALSE],
   [reached |-> TRUE, ok |-> TRUE, status |-> "200", text |-> "", valid |-> FALSE,
    hasList |-> FALSE, list |-> <<>>, hasBody |-> TRUE],
   [reached |-> TRUE, ok |-> TRUE, status |-> "200", text |-> "", valid |-> FALSE,
    hasList |-> FALSE, list |-> <<>>, hasBody |-> FALSE]}

NoUpstreamResponse ==
  [reached |-> FALSE, ok |-> FALSE, status |-> "", text |-> "", valid |-> FALSE,
   hasList |-> FALSE, list |-> <<>>, hasBody |-> FALSE]

Return(v) == [threw |-> FALSE, value |-> v, error |-> NoError]
Throw(m, d) == [threw |-> TRUE, value |-> Undefined, error |-> Err(m, d)]

\* The part of an adapter's code after the fetch, up to the parsed body:
\* the fetch rejects, !response.ok throws the adapter's own message with the
\* raw body, response.json() rejects, data.choices[0] / data.content[0] of
\* a missing list throws.
UpstreamFailure(prefix, r) ==
  IF ~r.reached THEN Throw("fetch failed", "")
  ELSE IF ~r.ok THEN Throw(prefix, r.text)
  ELSE IF ~r.valid THEN Throw("Unexpected token in JSON", "")
  ELSE IF ~r.hasList THEN Throw("Cannot read properties of undefined", "")
  ELSE Return(Undefined)

\* callOpenAI returning data.choices[0]?.message?.content without the || ''.
M_callOpenAINoFallback(r) ==
  IF UpstreamFailure("OpenAI API error: ", r).threw
    THEN UpstreamFailure("OpenAI API error: ", r)
  ELSE IF r.list = <<>> THEN Return(Undefined)
  ELSE IF ~r.list[1].hasMessage THEN Return(Undefined)
  ELSE Return(r.list[1].text)

\* data.choices[0]?.message?.content || ''
callOpenAI(r) ==
  IF UpstreamFailure("OpenAI API error: ", r).threw
    THEN UpstreamFailure("OpenAI API error: ", r)
  ELSE IF r.list = <<>> THEN Return("")
  ELSE IF ~r.list[1].hasMessage THEN Return("")
  ELSE Return(Or(r.list[1].text, ""))

\* data.content[0]?.text || ''
callAnthropic(r) ==
  IF UpstreamFailure("Anthropic API error: ", r).threw
    THEN UpstreamFailure("Anthropic API error: ", r)
  ELSE IF r.list = <<>> THEN Return("")
  ELSE Return(Or(r.list[1].text, ""))

----------------------------------------------------------------------------
(* The relay of the upstream's event stream: streamOpenAI, streamAnthropic. *)

\* Texts are sequences of symbols: the line feed, the carriage return, the
\* space, the word "data:" (so that "data:" and " " together are the prefix
\* 'data: '), the braces of a JSON object and the text between them, the
\* sentinel [DONE], and words that are none of these.
LF == "\n"
CR == "\r"
SP == " "

\* The longest upstream body: so many lines.
MaxLines == 2

\* The frames written to the caller: 'data: [DONE]\n\n' and
\* `data: ${JSON.stringify({ content })}\n\n`.
DoneFrame == [done |-> TRUE, content |-> ""]
ContentFrame(c) == [done |-> FALSE, content |-> c]

\* The values of the JSON objects of the model, by the text between their
\* braces: content is parsed.choices?.[0]?.delta?.content, type is
\* parsed.type, text is parsed.delta?.text.
ObjectOf(b) ==
  CASE b = "chunk A" -> [content |-> "A", type |-> Undefined, text |-> Undefined]
    [] b = "chunk B" -> [content |-> "B", type |-> Undefined, text |-> Undefined]
    [] b = "chunk empty" -> [content |-> "", type |-> Undefined, text |-> Undefined]
    [] b = "chunk null" -> [content |-> Null, type |-> Undefined, text |-> Undefined]
    [] b = "chunk role" -> [content |-> Undefined, type |-> Undefined, text |-> Undefined]
    [] b = "delta A" -> [content |-> Undefined, type |-> "content_block_delta", text |-> "A"]
    [] b = "delta B" -> [content |-> Undefined, type |-> "content_block_delta", text |-> "B"]
    [] b = "delta empty" -> [content |-> Undefined, type |-> "content_block_delta", text |-> ""]
    [] b = "delta json" ->
         [content |-> Undefined, type |-> "content_block_delta", text |-> Undefined]
    [] b = "start A" -> [content |-> Undefined, type |-> "content_block_start", text |-> "A"]
    [] b = "message_stop" ->
         [content |-> Undefined, type |-> "message_stop", text |-> Undefined]
    [] OTHER -> [content |-> Undefined, type |-> Undefined, text |-> Undefined]

JsonBodies ==
  {"chunk A", "chunk B", "chunk empty", "chunk null", "chunk role", "delta A", "delta B",
   "delta empty", "delta json", "start A", "message_stop"}

\* JSON.parse(data): an object if data is a whole JSON text, a SyntaxError
\* otherwise.
JSONparse(data) ==
  IF Len(data) = 3 /\ data[1] = "{" /\ data[2] \in JsonBodies /\ data[3] = "}"
    THEN [ok |-> TRUE, value |-> ObjectOf(data[2])]
  ELSE [ok |-> FALSE, value |-> ObjectOf("")]

\* line.trim(), for the white space of the model.
RECURSIVE TrimStart(_)
TrimStart(line) ==
  IF line # <<>> /\ Head(line) \in {SP, CR} THEN TrimStart(Tail(line)) ELSE line

RECURSIVE TrimEnd(_)
TrimEnd(line) ==
  IF line # <<>> /\ line[Len(line)] \in {SP, CR}
    THEN TrimEnd(SubSeq(line, 1, Len(line) - 1))
  ELSE line

Trim(line) == TrimEnd(TrimStart(line))

\* 'data: '
DataPrefix == <<"data:", SP>>

\* trimmed.startsWith('data: ')
StartsWith(s, p) == Len(s) >= Len(p) /\ SubSeq(s, 1, Len(p)) = p

\* trimmed.slice(6): the text after the prefix.
SliceData(s) == SubSeq(s, Len(DataPrefix) + 1, Len(s))

\* buffer.split('\n'): the text between the line feeds, one element more
\* than there are line feeds.
RECURSIVE Split(_)
Split(s) ==
  IF \A i \in 1..Len(s) : s[i] # LF THEN <<s>>
  ELSE LET i == CHOOSE k \in 1..Len(s) : s[k] = LF /\ \A j \in 1..(k - 1) : s[j] # LF
       IN <<SubSeq(s, 1, i - 1)>> \o Split(SubSeq(s, i + 1, Len(s)))

\* The body of the for loop without the test of the increment: a frame for
\* every event that is parsed.
M_LineFramesNoContentCheck(op, line) ==
  LET trimmed == Trim(line)
      data == SliceData(trimmed)
      parsed == JSONparse(data)
  IN IF trimmed = <<>> \/ ~StartsWith(trimmed, DataPrefix) THEN <<>>
     ELSE IF data = <<"[DONE]">> THEN <<DoneFrame>>
     ELSE IF ~parsed.ok THEN <<>>
     ELSE IF op = "streamAnthropic"
       THEN IF parsed.value.type = "content_block_delta"
              THEN <<ContentFrame(parsed.value.text)>>
            ELSE <<>>
     ELSE <<ContentFrame(parsed.value.content)>>

\* The body of the for loop without the test of parsed.type.
M_LineFramesNoTypeCheck(op, line) ==
  LET trimmed == Trim(line)
      data == SliceData(trimmed)
      parsed == JSONparse(data)
  IN IF trimmed = <<>> \/ ~StartsWith(trimmed, DataPrefix) THEN <<>>
     ELSE IF data = <<"[DONE]">> THEN <<DoneFrame>>
     ELSE IF ~parsed.ok THEN <<>>
     ELSE IF op = "streamAnthropic"
       THEN IF Truthy(parsed.value.text)
              THEN <<ContentFrame(parsed.value.text)>>
            ELSE <<>>
     ELSE IF Truthy(parsed.value.content) THEN <<ContentFrame(parsed.value.content)>>
     ELSE <<>>

\* The body of the for loop without the test of the prefix.
M_LineFramesNoPrefixCheck(op, line) ==
  LET trimmed == Trim(line)
      data == IF StartsWith(trimmed, DataPrefix) THEN SliceData(trimmed) ELSE Tail(trimmed)
      parsed == JSONparse(data)
  IN IF trimmed = <<>> THEN <<>>
     ELSE IF data = <<"[DONE]">> THEN <<DoneFrame>>
     ELSE IF ~parsed.ok THEN <<>>
     ELSE IF op = "streamAnthropic"
       THEN IF parsed.value.type = "content_block_delta" /\ Truthy(parsed.value.text)
              THEN <<ContentFrame(parsed.value.text)>>
            ELSE <<>>
     ELSE IF Truthy(parsed.value.content) THEN <<ContentFrame(parsed.value.content)>>
     ELSE <<>>

\* The body of the for loop over the lines: the frames written for one line,
\* none or one.  A line that is blank or lacks the prefix is skipped, the
\* sentinel is written again, a JSON.parse that throws is caught and the
\* line skipped, a content that is not truthy is not written.
LineFrames(op, line) ==
  LET trimmed == Trim(line)
      data == SliceData(trimmed)
      parsed == JSONparse(data)
  IN IF trimmed = <<>> \/ ~StartsWith(trimmed, DataPrefix) THEN <<>>
     ELSE IF data = <<"[DONE]">> THEN <<DoneFrame>>
     ELSE IF ~parsed.ok THEN <<>>
     ELSE IF op = "streamAnthropic"
       THEN IF parsed.value.type = "content_block_delta" /\ Truthy(parsed.value.text)
              THEN <<ContentFrame(parsed.value.text)>>
            ELSE <<>>
     ELSE IF Truthy(parsed.value.content) THEN <<ContentFrame(parsed.value.content)>>
     ELSE <<>>

\* The for loop leaving at the sentinel: a break where the continue is.
RECURSIVE M_WriteLinesStopAtDone(_, _)
M_WriteLinesStopAtDone(op, lines) ==
  IF lines = <<>> THEN <<>>
  ELSE IF LineFrames(op, Head(lines)) = <<DoneFrame>> THEN <<DoneFrame>>
  ELSE LineFrames(op, Head(lines)) \o M_WriteLinesStopAtDone(op, Tail(lines))

\* for (const line of lines): the frames written, in the order of the lines.
RECURSIVE WriteLines(_, _)
WriteLines(op, lines) ==
  IF lines = <<>> THEN <<>>
  ELSE LineFrames(op, Head(lines)) \o WriteLines(op, Tail(lines))

\* The buffer never keeping the incomplete line.
M_PopKeepsNothing(lines) == <<>>

\* lines.pop() || '': the text after the last line feed.
Pop(lines) == lines[Len(lines)]

\* One turn of the while loop on a chunk: buffer += decode(value), the
\* split, the pop and the for loop.
RelayChunk(op, buf, chunk) ==
  LET lines == Split(buf \o chunk)
  IN [buffer |-> Pop(lines),
      frames |-> WriteLines(op, SubSeq(lines, 1, Len(lines) - 1))]

\* A data line holding the JSON object of body b, and the lines an upstream
\* may send to each adapter: blank, an event line or a data line without the
\* space (no prefix), a JSON text cut short, objects with and without an
\* increment, a line ending in CR LF, the sentinel.
DataLine(b) == <<"data:", SP, "{", b, "}">>

OpenAILines ==
  {<<>>,
   DataLine("chunk A"),
   DataLine("chunk B") \o <<CR>>,
   DataLine("chunk empty"),
   DataLine("chunk null"),
   DataLine("chunk role"),
   <<"data:", "{", "chunk A", "}">>,
   <<"data:", SP, "{", "chunk A">>,
   <<"data:", SP, "[DONE]">>}

AnthropicLines ==
  {<<>>,
   <<"event:", SP, "content_block_delta">>,
   DataLine("delta A"),
   <<SP>> \o DataLine("delta B"),
   DataLine("delta empty"),
   DataLine("delta json"),
   DataLine("start A"),
   DataLine("message_stop"),
   <<"data:", SP, "{", "delta A">>,
   <<"data:", SP, "[DONE]">>}

UpstreamLines(op) == IF op = "streamAnthropic" THEN AnthropicLines ELSE OpenAILines

RECURSIVE Join(_)
Join(ls) == IF ls = <<>> THEN <<>> ELSE Head(ls) \o <<LF>> \o Join(Tail(ls))

\* The texts of a list, one after the other.
RECURSIVE Flat(_)
Flat(texts) == IF texts = <<>> THEN <<>> ELSE Head(texts) \o Flat(Tail(texts))

\* The bodies an upstream may send: up to MaxLines lines, the last of them
\* ended by a line feed or not.
UpstreamTexts(op) ==
  UNION {{Join(ls), SubSeq(Join(ls), 1, Len(Join(ls)) - 1)} :
           ls \in UNION {[1..n -> UpstreamLines(op)] : n \in 0..MaxLines}}

----------------------------------------------------------------------------
(* The conversion of messages and content parts for the Anthropic adapter. *)

\* A content part of a request: { type, text?, image_url?: { url } }.  A
\* URL is the sequence of its pieces; url is <<>> where image_url or its url
\* is missing or the empty string, which part.image_url?.url does not tell
\* apart.
TextPart(t) == [type |-> "text", text |-> t, url |-> <<>>]
ImagePart(u) == [type |-> "image_url", text |-> Undefined, url |-> u]
OtherPart(t) == [type |-> "input_audio", text |-> t, url |-> <<>>]

\* The pieces of a URL that hold a semicolon.
WithSemicolon == {";base64,", ";charset=utf-8"}

\* The URLs of the image parts: none, a web address, and data URLs: of an
\* image, of a document, without payload, with a parameter before the
\* encoding, without subtype, and with a line feed in the payload.
Urls ==
  {<<>>,
   <<"https://h/p.png">>,
   <<"data:", "image/", "png", ";base64,", "AAAA">>,
   <<"data:", "application/", "pdf", ";base64,", "AAAA">>,
   <<"data:", "image/", "png", ";base64,">>,
   <<"data:", "image/", "png", ";charset=utf-8", ";base64,", "AAAA">>,
   <<"data:", "image/", ";base64,", "AAAA">>,
   <<"data:", "image/", "png", ";base64,", "AAAA", LF, "AAAA">>}

Parts ==
  {TextPart("hi"), TextPart(""), TextPart(Undefined), OtherPart(Undefined), OtherPart("hi")}
    \cup {ImagePart(u) : u \in Urls}

\* The longest list of parts of a message.
MaxParts == 2

PartLists == UNION {[1..n -> Parts] : n \in 0..MaxParts}

\* A part of the Anthropic format: { type: 'text', text } or { type: 'image',
\* source: { type: 'base64', media_type, data } }; the texts are sequences
\* of pieces, <<>> the empty string.
AnthropicText(t) == [type |-> "text", text |-> t, media_type |-> <<>>, data |-> <<>>]
AnthropicImage(m, d) == [type |-> "image", text |-> <<>>, media_type |-> m, data |-> d]

\* The pattern matching every media type, not only image/...
M_MatchDataUrlAnyMediaType(url) ==
  LET semis == {n \in 3..Len(url) : url[n] \in WithSemicolon}
      k == IF semis = {} THEN 0 ELSE CHOOSE m \in semis : \A n \in semis : m <= n
  IN IF /\ Len(url) >= 5 /\ url[1] = "data:"
        /\ k > 3 /\ url[k] = ";base64," /\ k < Len(url)
        /\ \A n \in (k + 1)..Len(url) : url[n] \notin {LF, CR}
       THEN [matched |-> TRUE, media_type |-> SubSeq(url, 2, k - 1),
             data |-> SubSeq(url, k + 1, Len(url))]
     ELSE [matched |-> FALSE, media_type |-> <<>>, data |-> <<>>]

\* url.match(/^data:(image\/[^;]+);base64,(.+)$/): after 'data:' comes
\* 'image/' and a non-empty run without semicolon, which ends at the first
\* semicolon, where ';base64,' must stand, followed by a non-empty rest
\* without line terminators up to the end of the URL.
MatchDataUrl(url) ==
  LET semis == {n \in 3..Len(url) : url[n] \in WithSemicolon}
      k == IF semis = {} THEN 0 ELSE CHOOSE m \in semis : \A n \in semis : m <= n
  IN IF /\ Len(url) >= 5 /\ url[1] = "data:" /\ url[2] = "image/"
        /\ k > 3 /\ url[k] = ";base64," /\ k < Len(url)
        /\ \A n \in (k + 1)..Len(url) : url[n] \notin {LF, CR}
       THEN [matched |-> TRUE, media_type |-> SubSeq(url, 2, k - 1),
             data |-> SubSeq(url, k + 1, Len(url))]
     ELSE [matched |-> FALSE, media_type |-> <<>>, data |-> <<>>]

\* The callback of parts.map(...).
MapPart(part) ==
  IF part.type = "text"
    THEN AnthropicText(IF Truthy(part.text) THEN <<part.text>> ELSE <<>>)
  ELSE IF part.type = "image_url" /\ part.url # <<>>
    THEN IF part.url[1] = "data:" /\ MatchDataUrl(part.url).matched
           THEN AnthropicImage(MatchDataUrl(part.url).media_type, MatchDataUrl(part.url).data)
         ELSE AnthropicText(<<"[Image URL: ">> \o part.url \o <<"]">>)
  ELSE AnthropicText(<<>>)

\* The filter letting every part through.
M_FilterPartAll(part) == TRUE

\* The callback of .filter(...): part.type === 'image' || (part.type ===
\* 'text' && part.text).
FilterPart(part) == part.type = "image" \/ (part.type = "text" /\ part.text # <<>>)

RECURSIVE convertContentPartsToAnthropic(_)
convertContentPartsToAnthropic(parts) ==
  IF parts = <<>> THEN <<>>
  ELSE (IF FilterPart(MapPart(Head(parts))) THEN <<MapPart(Head(parts))>> ELSE <<>>)
         \o convertContentPartsToAnthropic(Tail(parts))

\* The content of a message: a string or a list of parts.
StringContent(t) == [isString |-> TRUE, text |-> t, parts |-> <<>>]
PartsContent(ps) == [isString |-> FALSE, text |-> "", parts |-> ps]

\* The messages of the requests converted: system messages with a string
\* and with a list of parts, and user and assistant messages with either.
ConvMessages ==
  {[role |-> "system", content |-> StringContent("be brief")],
   [role |-> "system", content |-> StringContent("be kind")],
   [role |-> "system", content |-> PartsContent(<<TextPart("be brief")>>)],
   [role |-> "user", content |-> StringContent("hello")],
   [role |-> "user", content |->
      PartsContent(<<TextPart("hi"), ImagePart(<<"data:", "image/", "png", ";base64,", "AAAA">>)>>)],
   [role |-> "user", content |-> PartsContent(<<OtherPart(Undefined)>>)],
   [role |-> "assistant", content |-> StringContent("done")]}

\* The longest list of messages converted.
MaxMessages == 3

MessageLists == UNION {[1..n -> ConvMessages] : n \in 0..MaxMessages}

\* typeof systemMessage?.content === 'string' ? systemMessage.content : '',
\* with systemMessage = messages.find((m) => m.role === 'system').
SystemField(msgs) ==
  LET systems == SelectSeq(msgs, LAMBDA m : m.role = "system")
  IN IF systems = <<>> THEN ""
     ELSE IF systems[1].content.isString THEN systems[1].content.text
     ELSE ""

\* nonSystemMessages.map((m) => ({ role: m.role, content: typeof m.content
\* === 'string' ? m.content : convertContentPartsToAnthropic(m.content) }))
anthropicMessages(msgs) ==
  [i \in 1..Len(NonSystem(msgs)) |->
     LET m == NonSystem(msgs)[i]
     IN [role |-> m.role,
         content |-> IF m.content.isString THEN [isString |-> TRUE, text |-> m.content.text, parts |-> <<>>]
                     ELSE [isString |-> FALSE, text |-> "",
                           parts |-> convertContentPartsToAnthropic(m.content.parts)]]]

\* The system and messages fields of the body of the Anthropic request.
AnthropicBody(msgs) == [system |-> SystemField(msgs), messages |-> anthropicMessages(msgs)]

----------------------------------------------------------------------------
(* The chat handler.                                                       *)

VARIABLES
  impl,          \* which implementation this deployment runs
  startupEnv,    \* the default configuration the process started with
  processEnv,    \* the process-wide default configuration
  pc,            \* "idle", "awaitFetch", "streaming" or "done"
  req,           \* the request being handled
  gate,          \* the result of validateAccess for it, if it ran
  effectiveEnv,  \* the result of createEffectiveEnv for it, if it ran
  adapter,       \* the adapter operation invoked for it, or "none"
  upstreamReq,   \* the upstream HTTP request issued for it, if any
  upstreamRes,   \* the upstream's answer to it, if any
  resp,          \* the response to the caller
  relay,         \* the relay of the event stream: "idle", "start", "reading", "ended"
  upstream,      \* the text of the upstream's body not yet read
  delivered,     \* the text of the upstream's body read so far
  buffer,        \* the relay's line buffer
  frames,        \* the frames written to the caller so far
  callerClosed,  \* the caller's stream has been closed
  readFailed,    \* a read of the upstream's body rejected
  lateError,     \* the error the handler's catch answered after the stream began
  fetches,       \* the upstream HTTP requests issued for the request so far
  pending,       \* the frames written that the caller has not yet accepted
  callerGone,    \* the caller has disconnected
  cancelled,     \* the relay has cancelled the reading of the upstream's body
  readsSinceGone, \* the chunks the relay has read since the caller disconnected
  convIn,        \* the messages or the parts given to the Anthropic conversion
  convOut,       \* what the conversion returned for them, once it ran
  streams,       \* the relays of the requests served at the same time
  client,        \* the browser's streamChat call
  quota,         \* the browser's date, its quota item in localStorage, the quota configured
  repo,          \* the projects and version histories in IndexedDB and the transaction on them
  toast          \* the toast store, its timers and the clock

vars ==
  <<impl, startupEnv, processEnv, pc, req, gate, effectiveEnv, adapter, upstreamReq,
    upstreamRes, resp, relay, upstream, delivered, buffer, frames, callerClosed,
    readFailed, lateError, fetches, pending, callerGone, cancelled, readsSinceGone,
    convIn, convOut, streams, client, quota, repo, toast>>

\* The variables of the conversion.
convVars == <<convIn, convOut>>

\* The variables beside the handler's and the relay's.
\* The variables of the browser's services and stores.
appVars == <<quota, repo, toast>>

sideVars == <<convVars, streams, client, appVars>>

NoConvInput == [kind |-> "none", messages |-> <<>>, parts |-> <<>>]
NoConvOutput == [done |-> FALSE, system |-> "", messages |-> <<>>, parts |-> <<>>]

\* No conversion is looked at.
ConvIdle == convIn = NoConvInput /\ convOut = NoConvOutput

NoClient ==
  [pc |-> "idle", ok |-> FALSE, body |-> <<>>, received |-> <<>>, buffer |-> <<>>,
   fullContent |-> <<>>, chunks |-> <<>>, accumulated |-> <<>>, completed |-> FALSE,
   completions |-> <<>>, result |-> <<>>]

\* No requests are served side by side.
StreamsIdle == streams = <<>>

\* No streamChat call is looked at.
ClientIdle == client = NoClient

\* localStorage.getItem(QUOTA_STORAGE_KEY) returning null.
NoItem == [present |-> FALSE, json |-> FALSE, date |-> 0, used |-> 0]

NoQuota ==
  [today |-> 0, stored |-> NoItem,
   runtimeQuota |-> [isNumber |-> FALSE, value |-> 0],
   buildTimeQuota |-> [present |-> FALSE, isNaN |-> FALSE, value |-> 0],
   consumed |-> 0]

NoTx == [step |-> "none", id |-> "", before |-> [projects |-> {}, versions |-> {}],
         work |-> [projects |-> {}, versions |-> {}]]

NoRepo == [projects |-> {}, versions |-> {}, tx |-> NoTx]

NoToast ==
  [toasts |-> <<>>, timers |-> <<>>, now |-> 0, ticks |-> 0, added |-> 0, removals |-> 0]

\* The quota service, the repository and the toast store are not looked at.
QuotaIdle == quota = NoQuota
RepoIdle == repo = NoRepo
ToastIdle == toast = NoToast

AppIdle == QuotaIdle /\ RepoIdle /\ ToastIdle

SideIdle == ConvIdle /\ StreamsIdle /\ ClientIdle /\ AppIdle

\* The variables of the relay, but for relay itself.
relayVars ==
  <<upstream, delivered, buffer, frames, callerClosed, readFailed, lateError, pending,
    callerGone, cancelled, readsSinceGone>>

\* The variables of the handler, but for pc and resp.
chatVars ==
  <<impl, startupEnv, processEnv, req, gate, effectiveEnv, adapter, upstreamReq,
    upstreamRes>>

NoGate == [ran |-> FALSE, valid |-> FALSE, error |-> Undefined]
Gate(access) == [ran |-> TRUE, valid |-> access.valid, error |-> access.error]

NoEnv ==
  [AI_PROVIDER |-> Undefined, AI_BASE_URL |-> Undefined, AI_API_KEY |-> Undefined,
   AI_MODEL_ID |-> Undefined, ACCESS_PASSWORD |-> Undefined]

NoResponse == [status |-> 0, content |-> Undefined, error |-> NoError, stream |-> FALSE,
   thrown |-> NoError]

\* new Response(JSON.stringify({ error }), { status }) / res.status(s).json({ error })
ErrorResponse(s, e) ==
  [status |-> s, content |-> Undefined, error |-> e, stream |-> FALSE,
   thrown |-> NoError]

\* new Response(JSON.stringify({ content })) / res.json({ content })
ContentResponse(t) == [status |-> 200, content |-> t, error |-> NoError, stream |-> FALSE,
   thrown |-> NoError]

\* new Response(readable, { headers: text/event-stream }) / res.setHeader(...)
StreamResponse ==
  [status |-> 200, content |-> Undefined, error |-> NoError, stream |-> TRUE,
   thrown |-> NoError]

\* The handler's promise rejects with e: the handler hands no Response to
\* its caller and writes none of its own.
Rejected(e) ==
  [status |-> 0, content |-> Undefined, error |-> NoError, stream |-> FALSE,
   thrown |-> e]

\* Whether the handler awaits the streaming adapter inside its try block:
\* `await streamOpenAI(messages, effectiveEnv, res)` in the Express server,
\* `return streamOpenAI(messages, effectiveEnv)` in the Pages function and
\* the Worker, where a rejection of the returned promise passes the catch by.
AwaitsStream(i) == i = "express"

\* The handler's answer to an error e thrown by the adapter op: its catch
\* answers 500 with the message if the adapter was awaited.
Caught(awaited, e) == IF awaited THEN ErrorResponse(500, e) ELSE Rejected(e)

\* const { stream = false } = body; if (stream)
StreamFlag(raw) == raw = "true"

\* The messages check without its Array.isArray half.
M_InvalidMessagesNoArrayCheck(messages) == messages.kind = "undefined"

\* !messages || !Array.isArray(messages)
InvalidMessages(messages) == messages.kind # "array"

\* What the handler has done when it returns or reaches its first await of
\* an upstream fetch.
Outcome(p, g, e, a, f, r) ==
  [pc |-> p, gate |-> g, effectiveEnv |-> e, adapter |-> a, upstreamReq |-> f, resp |-> r]

\* The same, with env the handler's env object as the handler leaves it.
With(env, o) ==
  [pc |-> o.pc, gate |-> o.gate, effectiveEnv |-> o.effectiveEnv, adapter |-> o.adapter,
   upstreamReq |-> o.upstreamReq, resp |-> o.resp, env |-> env]

\* The switch on the provider with its cases the other way round: 'openai'
\* picks the OpenAI adapter, everything else the Anthropic one.
M_DispatchDefaultAnthropic(g, eff, messages, stream, awaitsStream) ==
  LET provider == Or(eff.AI_PROVIDER, "openai")
      family == IF provider = "openai" THEN "OpenAI" ELSE "Anthropic"
      op == (IF stream THEN "stream" ELSE "call") \o family
  IN IF ~Truthy(eff.AI_API_KEY)
       THEN Outcome("done", g, eff, op, NoFetch,
                    Caught(~stream \/ awaitsStream, Err(ErrNoApiKey, "")))
     ELSE Outcome("awaitFetch", g, eff, op,
                  IF family = "Anthropic" THEN AnthropicFetch(messages.items, eff, stream)
                  ELSE OpenAIFetch(messages.items, eff, stream),
                  NoResponse)

\* The switch on the provider and on stream, and the adapter's code up to
\* its fetch: a missing API key throws, which the handler's catch answers
\* if the adapter is awaited (a non-streaming adapter always is).
Dispatch(g, eff, messages, stream, awaitsStream) ==
  LET provider == Or(eff.AI_PROVIDER, "openai")
      family == IF provider = "anthropic" THEN "Anthropic" ELSE "OpenAI"
      op == (IF stream THEN "stream" ELSE "call") \o family
  IN IF ~Truthy(eff.AI_API_KEY)
       THEN Outcome("done", g, eff, op, NoFetch,
                    Caught(~stream \/ awaitsStream, Err(ErrNoApiKey, "")))
     ELSE Outcome("awaitFetch", g, eff, op,
                  IF family = "Anthropic" THEN AnthropicFetch(messages.items, eff, stream)
                  ELSE OpenAIFetch(messages.items, eff, stream),
                  NoResponse)

\* GatedChat without the return in the if (!valid) block: the denial is not
\* answered and the handler goes on.
M_GatedChatDenialFallsThrough(env, r, awaitsStream) ==
  IF ~r.parsed
    THEN With(env, Outcome("done", NoGate, NoEnv, "none", NoFetch,
                           ErrorResponse(500, Err(ErrBadBody, ""))))
  ELSE
    LET hasCustomLLM == HasCustomLLM(r.llmConfig)
        access == validateAccess(r.password, env.ACCESS_PASSWORD, hasCustomLLM)
        effective == createEffectiveEnv(env, r.llmConfig)
    IN IF InvalidMessages(r.messages)
         THEN With(env, Outcome("done", Gate(access), NoEnv, "none", NoFetch,
                                ErrorResponse(400, Err(ErrMessagesRequired, ""))))
       ELSE With(effective.env,
                 Dispatch(Gate(access), effective.result, r.messages, StreamFlag(r.stream),
                          awaitsStream))

\* GatedChat with the messages check ahead of the access gate.
M_GatedChatMessagesFirst(env, r, awaitsStream) ==
  IF ~r.parsed
    THEN With(env, Outcome("done", NoGate, NoEnv, "none", NoFetch,
                           ErrorResponse(500, Err(ErrBadBody, ""))))
  ELSE
    LET hasCustomLLM == HasCustomLLM(r.llmConfig)
        access == validateAccess(r.password, env.ACCESS_PASSWORD, hasCustomLLM)
        effective == createEffectiveEnv(env, r.llmConfig)
    IN IF InvalidMessages(r.messages)
         THEN With(env, Outcome("done", NoGate, NoEnv, "none", NoFetch,
                                ErrorResponse(400, Err(ErrMessagesRequired, ""))))
       ELSE IF ~access.valid
         THEN With(env, Outcome("done", Gate(access), NoEnv, "none", NoFetch,
                                ErrorResponse(401, Err(Or(access.error, ErrAccessDenied), ""))))
       ELSE With(effective.env,
                 Dispatch(Gate(access), effective.result, r.messages, StreamFlag(r.stream),
                          awaitsStream))

\* The handler of the Pages function and of the Express server, from the
\* parsed body to its first return or upstream fetch.
GatedChat(env, r, awaitsStream) ==
  IF ~r.parsed
    THEN With(env, Outcome("done", NoGate, NoEnv, "none", NoFetch,
                           ErrorResponse(500, Err(ErrBadBody, ""))))
  ELSE
    LET hasCustomLLM == HasCustomLLM(r.llmConfig)
        access == validateAccess(r.password, env.ACCESS_PASSWORD, hasCustomLLM)
        effective == createEffectiveEnv(env, r.llmConfig)
    IN IF ~access.valid
         THEN With(env, Outcome("done", Gate(access), NoEnv, "none", NoFetch,
                                ErrorResponse(401, Err(Or(access.error, ErrAccessDenied), ""))))
       ELSE IF InvalidMessages(r.messages)
         THEN With(env, Outcome("done", Gate(access), NoEnv, "none", NoFetch,
                                ErrorResponse(400, Err(ErrMessagesRequired, ""))))
       ELSE With(effective.env,
                 Dispatch(Gate(access), effective.result, r.messages, StreamFlag(r.stream),
                          awaitsStream))

\* The Worker's handler: no gate, no override.
UngatedChat(env, r) ==
  IF ~r.parsed
    THEN With(env, Outcome("done", NoGate, NoEnv, "none", NoFetch,
                           ErrorResponse(500, Err(ErrBadBody, ""))))
  ELSE IF InvalidMessages(r.messages)
    THEN With(env, Outcome("done", NoGate, NoEnv, "none", NoFetch,
                           ErrorResponse(400, Err(ErrMessagesRequired, ""))))
  ELSE With(env, Dispatch(NoGate, env, r.messages, StreamFlag(r.stream), FALSE))

\* A handler that fetches again when the adapter failed.
M_FetchesAfterRetry(n, failed) == IF failed THEN n + 1 ELSE n

\* The upstream requests issued once the adapter has its answer, n of them
\* before: the adapter throws on a failure and the handler's catch answers
\* it, neither fetches again.
FetchesAfter(n, failed) == n

Init ==
  /\ impl \in Impls
  /\ startupEnv \in StartupEnvs(impl)
  /\ processEnv = startupEnv
  /\ pc = "idle"
  /\ req = NoRequest
  /\ gate = NoGate
  /\ effectiveEnv = NoEnv
  /\ adapter = "none"
  /\ upstreamReq = NoFetch
  /\ upstreamRes = NoUpstreamResponse
  /\ resp = NoResponse
  /\ relay = "idle"
  /\ upstream = <<>>
  /\ delivered = <<>>
  /\ buffer = <<>>
  /\ frames = <<>>
  /\ callerClosed = FALSE
  /\ readFailed = FALSE
  /\ lateError = NoError
  /\ fetches = 0
  /\ pending = <<>>
  /\ callerGone = FALSE
  /\ cancelled = FALSE
  /\ readsSinceGone = 0
  /\ SideIdle

\* A request arrives and the handler runs to its first return or await of
\* the upstream; env is what it leaves of the process-wide defaults.
Begin(r, o, env) ==
  /\ pc = "idle"
  /\ req' = r
  /\ pc' = o.pc
  /\ gate' = o.gate
  /\ effectiveEnv' = o.effectiveEnv
  /\ adapter' = o.adapter
  /\ upstreamReq' = o.upstreamReq
  /\ resp' = o.resp
  /\ upstreamRes' = NoUpstreamResponse
  /\ processEnv' = env
  /\ fetches' = IF o.upstreamReq.sent THEN 1 ELSE 0
  /\ UNCHANGED <<impl, startupEnv, relay>>
  /\ UNCHANGED <<relayVars, sideVars>>

\* functions/api/chat.ts: env is context.env itself.
onRequestPost ==
  /\ impl = "pages"
  /\ \E r \in Requests(impl) :
       Begin(r, GatedChat(processEnv, r, AwaitsStream(impl)),
             GatedChat(processEnv, r, AwaitsStream(impl)).env)

\* The Express server's app.post('/api/chat'): env is the fresh object of
\* getEnv(), process.env is not handed to the handler.
appPostChat ==
  /\ impl = "express"
  /\ \E r \in Requests(impl) :
       Begin(r, GatedChat(getEnv(processEnv), r, AwaitsStream(impl)), processEnv)

\* worker/src/index.ts: env is the Worker's env binding itself.
handleChat ==
  /\ impl = "worker"
  /\ \E r \in Requests(impl) :
       Begin(r, UngatedChat(processEnv, r), UngatedChat(processEnv, r).env)

\* The non-streaming adapter resumes with the upstream's answer, and the
\* handler wraps its text as { content } or its catch answers 500.
CallReturns ==
  /\ pc = "awaitFetch"
  /\ ~upstreamReq.stream
  /\ \E u \in UpstreamResponses :
       LET result == IF adapter = "callAnthropic" THEN callAnthropic(u) ELSE callOpenAI(u)
       IN /\ upstreamRes' = u
          /\ resp' = IF result.threw THEN ErrorResponse(500, result.error)
                     ELSE ContentResponse(result.value)
          /\ fetches' = FetchesAfter(fetches, result.threw)
  /\ pc' = "done"
  /\ UNCHANGED <<impl, startupEnv, processEnv, req, gate, effectiveEnv, adapter, upstreamReq,
                 relay>>
  /\ UNCHANGED <<relayVars, sideVars>>

\* The streaming adapter resumes with the upstream's answer: a failure is
\* thrown, to the handler's catch if the handler awaits the adapter;
\* otherwise the event stream to the caller begins.
StreamOpens ==
  /\ pc = "awaitFetch"
  /\ upstreamReq.stream
  /\ \E u \in StreamResponses :
       LET failure == UpstreamFailure(IF adapter = "streamAnthropic"
                                        THEN "Anthropic API error: "
                                        ELSE "OpenAI API error: ", u)
       IN /\ upstreamRes' = u
          /\ fetches' = FetchesAfter(fetches, ~u.reached \/ ~u.ok)
          /\ IF ~u.reached \/ ~u.ok
               THEN /\ pc' = "done"
                    /\ resp' = Caught(AwaitsStream(impl), failure.error)
                    /\ relay' = relay
               ELSE /\ pc' = "streaming"
                    /\ resp' = StreamResponse
                    /\ relay' = "start"
  /\ UNCHANGED <<impl, startupEnv, processEnv, req, gate, effectiveEnv, adapter, upstreamReq>>
  /\ UNCHANGED <<relayVars, sideVars>>

\* The relay of the upstream's events to the caller runs to its end; the
\* status stays 200.  What the relay reads and writes is the matter of
\* SpecStream.
StreamCloses ==
  /\ pc = "streaming"
  /\ relay = "start"
  /\ pc' = "done"
  /\ relay' = "ended"
  /\ \E failed \in BOOLEAN : fetches' = FetchesAfter(fetches, failed)
  /\ UNCHANGED <<impl, startupEnv, processEnv, req, gate, effectiveEnv, adapter, upstreamReq,
                 upstreamRes, resp>>
  /\ UNCHANGED <<relayVars, sideVars>>

\* The handler has answered: its locals are gone, the next request may come.
Finish ==
  /\ pc = "done"
  /\ pc' = "idle"
  /\ req' = NoRequest
  /\ gate' = NoGate
  /\ effectiveEnv' = NoEnv
  /\ adapter' = "none"
  /\ upstreamReq' = NoFetch
  /\ upstreamRes' = NoUpstreamResponse
  /\ resp' = NoResponse
  /\ relay' = "idle"
  /\ fetches' = 0
  /\ UNCHANGED <<impl, startupEnv, processEnv>>
  /\ UNCHANGED <<relayVars, sideVars>>

Next ==
  \/ onRequestPost
  \/ appPostChat
  \/ handleChat
  \/ CallReturns
  \/ StreamOpens
  \/ StreamCloses
  \/ Finish

Spec == Init /\ [][Next]_vars

----------------------------------------------------------------------------
(* The relay, from the upstream's 2xx answer to the end of the stream.     *)

\* What the handler of implementation i does with request r under the
\* defaults env, up to its upstream fetch.
HandlerOutcome(i, env, r) ==
  IF i = "worker" THEN UngatedChat(env, r)
  ELSE IF i = "express" THEN GatedChat(getEnv(env), r, AwaitsStream(i))
  ELSE GatedChat(env, r, AwaitsStream(i))

\* The streaming requests that reach the upstream: of the Worker under
\* defaults with an API key, of the other two with an override in full and
\* no access password.
StreamSetups(i) ==
  {s \in StartupEnvs(i) \X Requests(i) :
     /\ s[2].parsed /\ s[2].stream = "true"
     /\ s[2].messages = [kind |-> "array", items |-> <<UserMessage>>]
     /\ s[2].password = Null
     /\ s[1].ACCESS_PASSWORD = Undefined
     /\ IF i = "worker" THEN Truthy(s[1].AI_API_KEY)
        ELSE /\ s[1].AI_API_KEY = Undefined /\ s[1].AI_PROVIDER = Undefined
             /\ s[2].llmConfig.present
             /\ s[2].llmConfig.provider # Undefined
             /\ Truthy(s[2].llmConfig.baseUrl) /\ Truthy(s[2].llmConfig.modelId)
     /\ HandlerOutcome(i, s[1], s[2]).pc = "awaitFetch"}

\* The state StreamOpens leaves when the upstream answered 2xx, with the
\* text of the upstream's body.
InitStream ==
  /\ impl \in Impls
  /\ \E s \in StreamSetups(impl) :
       LET o == HandlerOutcome(impl, s[1], s[2])
       IN /\ startupEnv = s[1]
          /\ processEnv = s[1]
          /\ req = s[2]
          /\ gate = o.gate
          /\ effectiveEnv = o.effectiveEnv
          /\ adapter = o.adapter
          /\ upstreamReq = o.upstreamReq
  /\ pc = "streaming"
  /\ resp = StreamResponse
  /\ relay = "start"
  /\ upstreamRes \in {u \in StreamResponses : u.reached /\ u.ok}
  /\ upstream \in IF upstreamRes.hasBody THEN UpstreamTexts(adapter) ELSE {<<>>}
  /\ delivered = <<>>
  /\ buffer = <<>>
  /\ frames = <<>>
  /\ callerClosed = FALSE
  /\ readFailed = FALSE
  /\ lateError = NoError
  /\ fetches = 1
  /\ pending = <<>>
  /\ callerGone = FALSE
  /\ cancelled = FALSE
  /\ readsSinceGone = 0
  /\ SideIdle

\* Whether a write to the caller is awaited: `await writer.write(...)` in
\* the Worker's relay, whose promise settles when the caller's side takes
\* the frame or is gone; `res.write(...)` in the Express server, whose
\* result is not looked at.
AwaitsWrite(i) == i # "express"

\* const reader = response.body?.getReader(): without a body the Express
\* adapter ends the response and returns, the Worker's relay returns and
\* leaves the writer open.
GetReader ==
  /\ pc = "streaming" /\ relay = "start"
  /\ IF upstreamRes.hasBody
       THEN /\ relay' = "reading"
            /\ UNCHANGED <<pc, callerClosed>>
       ELSE /\ relay' = "ended"
            /\ pc' = "done"
            /\ callerClosed' = (impl = "express")
  /\ UNCHANGED <<resp, upstream, delivered, buffer, frames, readFailed, lateError, fetches,
                 pending, callerGone, cancelled, readsSinceGone>>
  /\ UNCHANGED <<chatVars, sideVars>>

\* reader.read() resolves with a chunk, any part of what the upstream has
\* yet to send, and the loop takes one turn on it.  The Worker's relay has
\* awaited every write before, so nothing is pending when it reads.  Once
\* the caller is gone the Worker's writes reject: that of an increment is
\* caught with the errors of JSON.parse and the line skipped, that of the
\* sentinel leaves the loop for the finally block; the writes of the
\* Express server go nowhere.
ReadChunk ==
  /\ relay = "reading"
  /\ AwaitsWrite(impl) => pending = <<>>
  /\ \E n \in 1..Len(upstream) :
       LET chunk == SubSeq(upstream, 1, n)
           turn == RelayChunk(adapter, buffer, chunk)
           rejected == callerGone /\ AwaitsWrite(impl)
           thrown == rejected /\ \E i \in 1..Len(turn.frames) : turn.frames[i] = DoneFrame
       IN /\ upstream' = SubSeq(upstream, n + 1, Len(upstream))
          /\ delivered' = delivered \o chunk
          /\ buffer' = turn.buffer
          /\ frames' = IF rejected THEN frames ELSE frames \o turn.frames
          /\ pending' = IF callerGone THEN pending ELSE pending \o turn.frames
          /\ IF thrown
               THEN relay' = "ended" /\ pc' = "done" /\ callerClosed' = TRUE
               ELSE UNCHANGED <<relay, pc, callerClosed>>
  /\ readsSinceGone' = IF callerGone THEN readsSinceGone + 1 ELSE readsSinceGone
  /\ UNCHANGED <<resp, readFailed, lateError, fetches, callerGone, cancelled>>
  /\ UNCHANGED <<chatVars, sideVars>>

\* reader.read() resolves with done: break, and the finally block releases
\* the reader and closes the caller's stream.
ReadDone ==
  /\ relay = "reading"
  /\ upstream = <<>>
  /\ AwaitsWrite(impl) => pending = <<>>
  /\ relay' = "ended"
  /\ pc' = "done"
  /\ callerClosed' = TRUE
  /\ UNCHANGED <<resp, upstream, delivered, buffer, frames, readFailed, lateError, fetches,
                 pending, callerGone, cancelled, readsSinceGone>>
  /\ UNCHANGED <<chatVars, sideVars>>

\* reader.read() rejects: the finally block releases the reader and closes
\* the caller's stream, and the error leaves the relay.  The Express
\* handler awaits the adapter, so its catch runs res.status(500).json on
\* the response already ended; the promise of the Worker's relay is not
\* awaited by anyone.
ReadFails ==
  /\ relay = "reading"
  /\ AwaitsWrite(impl) => pending = <<>>
  /\ relay' = "ended"
  /\ pc' = "done"
  /\ readFailed' = TRUE
  /\ callerClosed' = TRUE
  /\ lateError' = IF AwaitsStream(impl) THEN Err("read failed", "") ELSE NoError
  /\ fetches' = FetchesAfter(fetches, TRUE)
  /\ UNCHANGED <<resp, upstream, delivered, buffer, frames, pending, callerGone, cancelled,
                 readsSinceGone>>
  /\ UNCHANGED <<chatVars, sideVars>>

\* The caller takes the oldest frame written to it.
CallerAccepts ==
  /\ relay \in {"reading", "ended"}
  /\ ~callerGone
  /\ pending # <<>>
  /\ pending' = Tail(pending)
  /\ UNCHANGED <<pc, resp, relay, upstream, delivered, buffer, frames, callerClosed,
                 readFailed, lateError, fetches, callerGone, cancelled, readsSinceGone>>
  /\ UNCHANGED <<chatVars, sideVars>>

\* The caller disconnects while the relay reads: what it had not taken is
\* lost.  Neither relay listens for it (no req.on('close'), no
\* AbortController) or calls reader.cancel().
CallerDisconnects ==
  /\ relay = "reading"
  /\ ~callerGone
  /\ callerGone' = TRUE
  /\ pending' = <<>>
  /\ UNCHANGED <<pc, resp, relay, upstream, delivered, buffer, frames, callerClosed,
                 readFailed, lateError, fetches, cancelled, readsSinceGone>>
  /\ UNCHANGED <<chatVars, sideVars>>

NextStream ==
  \/ GetReader
  \/ ReadChunk
  \/ ReadDone
  \/ ReadFails
  \/ CallerAccepts

SpecStream == InitStream /\ [][NextStream]_vars

\* The relay with a caller that may disconnect.
NextDisconnect ==
  \/ GetReader
  \/ ReadChunk
  \/ ReadDone
  \/ ReadFails
  \/ CallerAccepts
  \/ CallerDisconnects

SpecDisconnect == InitStream /\ [][NextDisconnect]_vars

----------------------------------------------------------------------------
(* Properties.                                                             *)

\* The defaults the handler works from: context.env in the Pages function
\* and the Worker, getEnv() in the Express server.
ServerDefaults == IF impl = "express" THEN getEnv(processEnv) ELSE processEnv

\* The request carries an override with a non-empty apiKey.
UsableOverride == req.llmConfig.present /\ req.llmConfig.apiKey \notin {Undefined, Null, ""}

Denied == gate.ran /\ ~gate.valid

\* C1: a request the access gate denies is answered 401 with the gate's
\* reason as a JSON error; no adapter operation runs and no upstream HTTP
\* request is issued for it.
C1_DeniedNeverReachesUpstream ==
  Denied =>
    /\ pc = "done"
    /\ adapter = "none"
    /\ ~upstreamReq.sent
    /\ resp.status = 401
    /\ resp.error.msg = gate.error
    /\ resp.error.msg \in {ErrNoServerPassword, ErrPasswordRequired, ErrWrongPassword}
    /\ resp.content = Undefined
    /\ ~resp.stream

\* A denied request that would otherwise have been sent upstream: its
\* messages are a non-empty array and the server has an API key.
C1_Witness ==
  /\ Denied
  /\ req.messages.kind = "array" /\ req.messages.items # <<>>
  /\ processEnv.AI_API_KEY = "env-key"
  /\ req.password = "wrong"
  /\ resp.status = 401

\* C2: with an override whose apiKey is non-empty the gate allows the
\* request, whatever password was supplied and whatever password is
\* configured.
C2_OverrideBypassesGate ==
  (impl # "worker" /\ pc # "idle" /\ req.parsed /\ UsableOverride) =>
    /\ gate.ran
    /\ gate.valid
    /\ resp.status # 401

\* An override passes with a wrong password against a configured one.
C2_Witness ==
  /\ UsableOverride
  /\ gate.ran /\ gate.valid
  /\ req.password = "wrong"
  /\ processEnv.ACCESS_PASSWORD = "secret"
  /\ upstreamReq.sent

\* C3: an override whose apiKey is the empty string does not bypass the gate
\* (the request is allowed exactly when the supplied password equals the
\* configured, non-empty one) and changes nothing of the effective
\* configuration, which is the server defaults.
C3_EmptyKeyOverrideIsAbsent ==
  (impl # "worker" /\ pc # "idle" /\ req.parsed
     /\ req.llmConfig.present /\ req.llmConfig.apiKey = "") =>
    /\ gate.ran
    /\ gate.valid <=> (/\ ServerDefaults.ACCESS_PASSWORD \notin {Undefined, ""}
                       /\ req.password = ServerDefaults.ACCESS_PASSWORD)
    /\ adapter # "none" => effectiveEnv = ServerDefaults
    /\ upstreamReq.sent =>
         /\ upstreamReq.apiKey = ServerDefaults.AI_API_KEY
         /\ upstreamReq.base = ServerDefaults.AI_BASE_URL
         /\ upstreamReq.model = ServerDefaults.AI_MODEL_ID
         /\ upstreamReq.path =
              IF ServerDefaults.AI_PROVIDER = "anthropic" THEN "/messages"
              ELSE "/chat/completions"

\* An empty-key override naming the other provider, another base URL and
\* another model is dispatched to the default provider with the defaults.
C3_Witness ==
  /\ req.llmConfig.present /\ req.llmConfig.apiKey = ""
  /\ req.llmConfig.provider = "anthropic"
  /\ req.llmConfig.baseUrl = "https://user.example/v1"
  /\ upstreamReq.sent
  /\ upstreamReq.path = "/chat/completions"
  /\ upstreamReq.base = "https://env.example/v1"

\* The gate's decision by its rules in order, for a supplied and a
\* configured password.
PasswordRule(supplied, configured) ==
  CASE configured \in {Undefined, Null, ""} -> [valid |-> FALSE, error |-> ErrNoServerPassword]
    [] configured \notin {Undefined, Null, ""} /\ supplied \in {Undefined, Null, ""} ->
         [valid |-> FALSE, error |-> ErrPasswordRequired]
    [] configured \notin {Undefined, Null, ""} /\ supplied \notin {Undefined, Null, ""}
         /\ supplied = configured -> [valid |-> TRUE, error |-> Undefined]
    [] OTHER -> [valid |-> FALSE, error |-> ErrWrongPassword]

\* C4: without a usable override the gate returns the first rule that
\* fires: no configured password, then no supplied password, then the
\* comparison of the two; a denial is answered with that rule's reason.
C4_GateRulesInOrder ==
  (impl # "worker" /\ pc # "idle" /\ req.parsed /\ ~UsableOverride) =>
    /\ gate.ran
    /\ gate.valid = PasswordRule(req.password, ServerDefaults.ACCESS_PASSWORD).valid
    /\ gate.error = PasswordRule(req.password, ServerDefaults.ACCESS_PASSWORD).error
    /\ ~gate.valid => resp.error.msg = gate.error

\* A password is supplied and the server has none configured.
C4_Witness ==
  /\ gate.ran /\ ~UsableOverride
  /\ req.password = "secret"
  /\ processEnv.ACCESS_PASSWORD = ""
  /\ gate.error = ErrNoServerPassword
  /\ resp.status = 401

\* The override's value of a field if it supplies one, else the default.
FieldByField(override, default) == IF override \in {Undefined, Null, ""} THEN default ELSE override

\* C5: with a usable override each of provider, baseUrl and modelId of the
\* effective configuration is the override's value when it supplies one
\* and the server default otherwise, and the apiKey is the override's.
C5_OverrideFieldByField ==
  (UsableOverride /\ adapter # "none") =>
    /\ effectiveEnv.AI_PROVIDER = FieldByField(req.llmConfig.provider, ServerDefaults.AI_PROVIDER)
    /\ effectiveEnv.AI_BASE_URL = FieldByField(req.llmConfig.baseUrl, ServerDefaults.AI_BASE_URL)
    /\ effectiveEnv.AI_MODEL_ID = FieldByField(req.llmConfig.modelId, ServerDefaults.AI_MODEL_ID)
    /\ effectiveEnv.AI_API_KEY = req.llmConfig.apiKey
    /\ upstreamReq.sent
    /\ upstreamReq.apiKey = req.llmConfig.apiKey
    /\ upstreamReq.base = effectiveEnv.AI_BASE_URL
    /\ upstreamReq.model = effectiveEnv.AI_MODEL_ID

\* An override that supplies a provider and a model but no base URL, over
\* defaults that name another provider.
C5_Witness ==
  /\ UsableOverride
  /\ req.llmConfig.provider = "anthropic" /\ processEnv.AI_PROVIDER = "openai"
  /\ req.llmConfig.baseUrl = "" /\ req.llmConfig.modelId = "user-model"
  /\ upstreamReq.sent
  /\ upstreamReq.path = "/messages"
  /\ upstreamReq.base = "https://env.example/v1"
  /\ upstreamReq.model = "user-model"

\* The defaults the process started with, as the handler would read them.
StartupDefaults == IF impl = "express" THEN getEnv(startupEnv) ELSE startupEnv

\* C6: handling requests never changes the process-wide defaults, and a
\* request without a usable override is dispatched with exactly the
\* startup default provider, baseUrl, apiKey and modelId.
C6_DefaultsNeverChange ==
  /\ processEnv = startupEnv
  /\ (pc # "idle" /\ req.parsed /\ ~UsableOverride /\ adapter # "none") =>
       /\ effectiveEnv.AI_PROVIDER = StartupDefaults.AI_PROVIDER
       /\ effectiveEnv.AI_BASE_URL = StartupDefaults.AI_BASE_URL
       /\ effectiveEnv.AI_API_KEY = StartupDefaults.AI_API_KEY
       /\ effectiveEnv.AI_MODEL_ID = StartupDefaults.AI_MODEL_ID
       /\ upstreamReq.sent =>
            /\ upstreamReq.base = StartupDefaults.AI_BASE_URL
            /\ upstreamReq.apiKey = StartupDefaults.AI_API_KEY
            /\ upstreamReq.model = StartupDefaults.AI_MODEL_ID
            /\ upstreamReq.path =
                 IF StartupDefaults.AI_PROVIDER = "anthropic" THEN "/messages"
                 ELSE "/chat/completions"

\* The Pages function, whose env is the shared context.env, sends a request
\* without an override upstream with the default key.
C6_Witness ==
  /\ impl = "pages"
  /\ ~req.llmConfig.present
  /\ upstreamReq.sent
  /\ upstreamReq.apiKey = "env-key"
  /\ upstreamReq.path = "/messages"

\* The body is a JSON object whose messages field is missing or no array.
BadMessages == pc # "idle" /\ req.parsed /\ req.messages.kind # "array"

\* C7 as claimed: a request whose messages field is missing or not an array
\* is answered 400 with a JSON error and is never forwarded upstream.
C7_Original ==
  BadMessages =>
    /\ resp.status = 400
    /\ resp.error # NoError
    /\ ~upstreamReq.sent

\* C7: a request whose messages field is missing or not an array is never
\* forwarded upstream and is answered with a JSON error: 401 when the
\* access gate denies it, 400 otherwise.
C7_BadMessagesRejected ==
  BadMessages =>
    /\ pc = "done"
    /\ adapter = "none"
    /\ ~upstreamReq.sent
    /\ resp.content = Undefined
    /\ ~resp.stream
    /\ resp.error # NoError
    /\ IF Denied THEN resp.status = 401
       ELSE resp.status = 400 /\ resp.error.msg = ErrMessagesRequired

\* A request the gate allows, with an API key configured, whose messages
\* field is a string.
C7_Witness ==
  /\ BadMessages
  /\ req.messages.kind = "string"
  /\ gate.ran /\ gate.valid
  /\ processEnv.AI_API_KEY = "env-key"
  /\ resp.status = 400

\* The request would be denied by the gate's rules.
WouldBeDenied ==
  /\ ~UsableOverride
  /\ ~PasswordRule(req.password, ServerDefaults.ACCESS_PASSWORD).valid

\* C8 as claimed: the messages field is validated before the gate is
\* invoked, so a request with an invalid messages field that the gate would
\* deny is answered 400.
C8_Original ==
  (impl # "worker" /\ BadMessages /\ WouldBeDenied) => resp.status = 400

\* The effective configuration the handler resolves for the request.
ResolvedEnv ==
  IF UsableOverride
    THEN [AI_PROVIDER |-> FieldByField(req.llmConfig.provider, ServerDefaults.AI_PROVIDER),
          AI_BASE_URL |-> FieldByField(req.llmConfig.baseUrl, ServerDefaults.AI_BASE_URL),
          AI_API_KEY |-> req.llmConfig.apiKey,
          AI_MODEL_ID |-> FieldByField(req.llmConfig.modelId, ServerDefaults.AI_MODEL_ID),
          ACCESS_PASSWORD |-> Undefined]
  ELSE ServerDefaults

\* C8: the gated handlers invoke the access gate first, then validate the
\* messages field, then resolve the effective configuration, then branch on
\* stream: a denial is answered 401 whatever the messages field is, an
\* allowed request with an invalid messages field 400 with no configuration
\* resolved, and any other request is resolved and handed to the call or
\* the stream operation by its stream flag.
C8_GateThenMessagesThenResolve ==
  (impl # "worker" /\ pc # "idle" /\ req.parsed) =>
    /\ gate.ran
    /\ Denied =>
         resp.status = 401 /\ effectiveEnv = NoEnv /\ adapter = "none"
    /\ (gate.valid /\ req.messages.kind # "array") =>
         resp.status = 400 /\ effectiveEnv = NoEnv /\ adapter = "none"
    /\ (gate.valid /\ req.messages.kind = "array") =>
         /\ effectiveEnv = ResolvedEnv
         /\ IF req.stream = "true" THEN adapter \in {"streamOpenAI", "streamAnthropic"}
            ELSE adapter \in {"callOpenAI", "callAnthropic"}

\* A request with no messages field that the gate denies.
C8_Witness ==
  /\ impl # "worker"
  /\ BadMessages /\ req.messages.kind = "undefined"
  /\ Denied
  /\ resp.status = 401

\* C9 as claimed: every request that reaches a provider adapter carries a
\* non-empty messages array.
C9_NonEmptyMessagesAtAdapter ==
  adapter # "none" => (req.messages.kind = "array" /\ Len(req.messages.items) > 0)

\* The upstream answered 2xx with a JSON body that has the provider's list.
UpstreamSucceeded ==
  /\ upstreamReq.sent
  /\ upstreamRes.reached /\ upstreamRes.ok /\ upstreamRes.valid /\ upstreamRes.hasList

\* What the upstream's body holds at the provider's response-content path:
\* choices[0].message.content or content[0].text.
PathText ==
  IF upstreamRes.list = <<>> THEN Undefined
  ELSE IF upstreamReq.path = "/chat/completions" /\ ~upstreamRes.list[1].hasMessage
    THEN Undefined
  ELSE upstreamRes.list[1].text

NonStreamingAnswered == pc = "done" /\ req.parsed /\ req.stream # "true"

ErrorOnly ==
  /\ resp.status \in {400, 401, 500}
  /\ resp.content = Undefined
  /\ resp.error # NoError
  /\ resp.error.msg # Undefined

\* C10 as claimed: a non-streaming request is answered either 200 with
\* { content: t }, t the text found at the provider's response-content
\* path, or with an error JSON.
C10_Original ==
  NonStreamingAnswered =>
    \/ /\ resp.status = 200
       /\ UpstreamSucceeded
       /\ PathText \notin {Undefined, Null}
       /\ resp.content = PathText
       /\ resp.error = NoError
    \/ ErrorOnly

\* C10: a non-streaming request is answered either 200 with { content: t },
\* where the upstream answered 2xx with a JSON body holding the provider's
\* list and t is the text at the provider's response-content path, or the
\* empty string when there is no non-empty text there, or with an error
\* JSON of status 400, 401 or 500; never both, and never 200 after an
\* adapter failure.
C10_ContentOrError ==
  NonStreamingAnswered =>
    /\ ~resp.stream
    /\ \/ /\ resp.status = 200
          /\ UpstreamSucceeded
          /\ resp.content = IF PathText \in {Undefined, Null, ""} THEN "" ELSE PathText
          /\ resp.error = NoError
       \/ /\ ErrorOnly
          /\ ~UpstreamSucceeded

\* The Anthropic-compatible upstream answers with a text and the caller
\* receives it.
C10_Witness ==
  /\ NonStreamingAnswered
  /\ upstreamReq.path = "/messages"
  /\ UpstreamSucceeded
  /\ PathText = "hi"
  /\ resp.status = 200 /\ resp.content = "hi"

\* The upstream answered the adapter's request with a non-2xx status.
UpstreamRefused ==
  pc = "done" /\ upstreamReq.sent /\ upstreamRes.reached /\ ~upstreamRes.ok

\* The error message e is made of the text t (among others).
Carries(e, t) == t \in {e.msg, e.detail}

\* The caller is answered a JSON error body of status 500 and nothing else.
JsonError500 ==
  /\ resp.status = 500
  /\ resp.error # NoError
  /\ resp.content = Undefined
  /\ ~resp.stream
  /\ resp.thrown = NoError

\* C11 as claimed: when the upstream answers with a non-2xx status, the
\* adapter operation fails with an error carrying the upstream status and
\* the raw upstream body text, and the caller receives a 500 JSON error
\* containing it, without content.
C11_Original ==
  UpstreamRefused =>
    /\ JsonError500
    /\ Carries(resp.error, upstreamRes.text)
    /\ Carries(resp.error, upstreamRes.status)

\* No API key is resolvable for an admitted request with a messages array:
\* neither the override nor the server defaults supply one.
NoKeyResolvable ==
  /\ pc = "done"
  /\ adapter # "none"
  /\ ~UsableOverride
  /\ ~Truthy(ServerDefaults.AI_API_KEY)

\* C12 as claimed: when neither the override nor the server defaults supply
\* an API key, call and openStream of either provider fail before any
\* upstream request is attempted, and the caller receives a 500 JSON error.
C12_Original ==
  NoKeyResolvable =>
    /\ ~upstreamReq.sent
    /\ JsonError500
    /\ resp.error.msg = ErrNoApiKey

\* A streaming request failed before the first byte of the event stream:
\* the API key is missing, the fetch rejected or the upstream answered with
\* a non-2xx status.
FailedBeforeFirstByte ==
  /\ pc = "done"
  /\ adapter \in {"streamOpenAI", "streamAnthropic"}
  /\ ~upstreamReq.sent \/ ~upstreamRes.reached \/ ~upstreamRes.ok

\* C13 as claimed: in streaming mode every failure before the first byte is
\* caught by the handler and answered as a 500 JSON error body, as in
\* non-streaming mode.
C13_Original == FailedBeforeFirstByte => JsonError500

----------------------------------------------------------------------------
(* Properties of the relay, under SpecStream.                              *)

\* The relay has a reader on the upstream's body.
Relaying == relay \in {"reading", "ended"} /\ upstreamRes.hasBody

\* The relay read the upstream's body to its end.
UpstreamDone == relay = "ended" /\ upstreamRes.hasBody /\ ~readFailed

\* The lines of a text that a line feed ends, and all of its lines, the
\* text after the last line feed included.
CompleteLines(text) == SubSeq(Split(text), 1, Len(Split(text)) - 1)

AllLines(text) == IF text = <<>> THEN <<>> ELSE Split(text)

\* C14 as claimed: when a read of the upstream's body fails after the
\* stream began, the gateway only closes the caller's stream: it writes no
\* further frame and does not try to send an error body or change the
\* status.
C14_Original ==
  (readFailed /\ frames # <<>>) =>
    /\ callerClosed
    /\ frames = WriteLines(adapter, CompleteLines(delivered))
    /\ resp = StreamResponse
    /\ lateError = NoError

\* The line is not blank.
NonBlank(line) == Trim(line) # <<>>

\* The last line the upstream sent that is not blank is its end marker:
\* the sentinel, or the message_stop event of an Anthropic-compatible
\* upstream.
UpstreamCompleted ==
  LET sent == SelectSeq(AllLines(delivered), NonBlank)
  IN /\ UpstreamDone
     /\ sent # <<>>
     /\ \/ Trim(sent[Len(sent)]) = <<"data:", SP, "[DONE]">>
        \/ /\ adapter = "streamAnthropic"
           /\ Trim(sent[Len(sent)]) = DataLine("message_stop")

\* C15 as claimed: every streaming response whose upstream completed
\* normally ends with the frame data: [DONE], whichever the provider.
C15_Original ==
  UpstreamCompleted => (frames # <<>> /\ frames[Len(frames)] = DoneFrame)

\* The line carries an increment or the sentinel for the adapter at work.
CarriesFrame(line) == LineFrames(adapter, line) # <<>>

\* C16 as claimed: the frames written are, in the order of arrival, exactly
\* one for each line of the upstream's body that carries an increment or
\* the sentinel: none is out of order, merged, written twice or left out.
C16_Original ==
  UpstreamDone =>
    LET carrying == SelectSeq(AllLines(delivered), CarriesFrame)
    IN /\ Len(frames) = Len(carrying)
       /\ \A i \in 1..Len(carrying) : <<frames[i]>> = LineFrames(adapter, carrying[i])

\* The upstream's body ended with the sentinel and no line feed after it:
\* the increment before it was written, the sentinel was not.
C16_Witness ==
  /\ UpstreamDone
  /\ adapter = "streamOpenAI"
  /\ delivered = DataLine("chunk A") \o <<LF>> \o <<"data:", SP, "[DONE]">>
  /\ frames = <<ContentFrame("A")>>

\* What holds of it: at every moment of the relay the frames written are,
\* in order, one for each such line among those a line feed has ended.
FramesFollowCompleteLines ==
  Relaying =>
    LET carrying == SelectSeq(CompleteLines(delivered), CarriesFrame)
    IN /\ Len(frames) = Len(carrying)
       /\ \A i \in 1..Len(carrying) : <<frames[i]>> = LineFrames(adapter, carrying[i])

\* C17: however the upstream's body is cut into chunks, down to one symbol
\* a chunk and a cut inside the prefix 'data: ', the relay has written the
\* frames and keeps the buffer it would have had the body come as one chunk.
C17_ChunkBoundaryInvariance ==
  Relaying =>
    /\ frames = RelayChunk(adapter, <<>>, delivered).frames
    /\ buffer = RelayChunk(adapter, <<>>, delivered).buffer

\* A chunk ended inside the prefix of the second line, after the frame of
\* the first was written.
C17_Witness ==
  /\ relay = "reading"
  /\ buffer = <<"data:">>
  /\ frames = <<ContentFrame("A")>>
  /\ upstream = <<SP, "[DONE]", LF>>

\* The line is not one the relay skips for its form: it is not blank, has
\* the prefix, and its payload is the sentinel or a JSON text.
WellFormed(line) ==
  /\ Trim(line) # <<>>
  /\ StartsWith(Trim(line), DataPrefix)
  /\ \/ SliceData(Trim(line)) = <<"[DONE]">>
     \/ JSONparse(SliceData(Trim(line))).ok

\* C18: a line that is blank, lacks the prefix or whose payload is not a
\* JSON text yields no frame and neither ends nor fails the stream: the
\* frames written are those the relay writes for the other lines, as if
\* that line had not come, and the caller's stream is closed only when the
\* upstream's body ended or a read of it failed.
C18_MalformedLinesSkipped ==
  Relaying =>
    /\ frames = WriteLines(adapter, SelectSeq(CompleteLines(delivered), WellFormed))
    /\ callerClosed => (readFailed \/ upstream = <<>>)

\* A JSON text cut short came first, an increment after it.
C18_Witness ==
  /\ UpstreamDone
  /\ CompleteLines(delivered) = <<<<"data:", SP, "{", "chunk A">>, DataLine("chunk A")>>
  /\ frames = <<ContentFrame("A")>>

\* C19 as claimed: when the upstream's body ends while the buffer holds a
\* line without its line feed, the relay puts that text through the code
\* of the lines, writing its increment or sentinel, before it closes the
\* caller's stream.
C19_Original ==
  UpstreamDone => frames = WriteLines(adapter, AllLines(delivered))

\* The line is a data line whose JSON object is a content_block_delta
\* with a text.
IsTextDelta(line) ==
  /\ StartsWith(Trim(line), DataPrefix)
  /\ JSONparse(SliceData(Trim(line))).ok
  /\ JSONparse(SliceData(Trim(line))).value.type = "content_block_delta"
  /\ Truthy(JSONparse(SliceData(Trim(line))).value.text)

IsContentFrame(f) == ~f.done

\* C20: of the events of an Anthropic-compatible upstream only those of
\* type content_block_delta yield a content frame, which carries their
\* delta.text; the events of other types yield no frame and no error.
C20_OnlyContentBlockDelta ==
  (Relaying /\ adapter = "streamAnthropic") =>
    LET deltas == SelectSeq(CompleteLines(delivered), IsTextDelta)
        written == SelectSeq(frames, IsContentFrame)
    IN /\ Len(written) = Len(deltas)
       /\ \A i \in 1..Len(deltas) :
            written[i].content = JSONparse(SliceData(Trim(deltas[i]))).value.text
       /\ callerClosed => (readFailed \/ upstream = <<>>)

\* An event of another type with a text in its delta came before a
\* content_block_delta; only the latter was written.
C20_Witness ==
  /\ UpstreamDone
  /\ adapter = "streamAnthropic"
  /\ CompleteLines(delivered) = <<DataLine("start A"), <<SP>> \o DataLine("delta B")>>
  /\ frames = <<ContentFrame("B")>>

\* The upstream refused with 429 and the caller got a 500 JSON error made
\* of the adapter's prefix and the raw body.
C11_Witness ==
  /\ UpstreamRefused
  /\ upstreamRes.status = "429"
  /\ resp = ErrorResponse(500, Err("OpenAI API error: ", "rate limited"))

\* The Worker's streaming adapter found no API key and the handler's
\* promise rejected.
C12_Witness ==
  /\ NoKeyResolvable
  /\ impl = "worker"
  /\ adapter = "streamAnthropic"
  /\ ~upstreamReq.sent
  /\ resp = Rejected(Err(ErrNoApiKey, ""))

\* The upstream refused the streaming request of the Pages function and
\* the handler's promise rejected.
C13_Witness ==
  /\ FailedBeforeFirstByte
  /\ impl = "pages"
  /\ upstreamRes.reached /\ ~upstreamRes.ok
  /\ resp = Rejected(Err("OpenAI API error: ", "rate limited"))

\* A read failed in the Express server after an increment was written:
\* the response was ended and the handler's catch answered the error.
C14_Witness ==
  /\ readFailed /\ callerClosed
  /\ impl = "express"
  /\ frames = <<ContentFrame("A")>>
  /\ lateError # NoError

\* An Anthropic-compatible upstream sent an increment and its message_stop,
\* each ended by a line feed, and the stream closed without the sentinel.
C15_Witness ==
  /\ UpstreamCompleted
  /\ adapter = "streamAnthropic"
  /\ delivered = DataLine("delta A") \o <<LF>> \o DataLine("message_stop") \o <<LF>>
  /\ frames = <<ContentFrame("A")>>
  /\ callerClosed

\* The upstream's body ended with an increment and no line feed after it:
\* the buffer still holds it and nothing was written.
C19_Witness ==
  /\ UpstreamDone /\ callerClosed
  /\ buffer = DataLine("chunk A")
  /\ delivered = DataLine("chunk A")
  /\ frames = <<>>

----------------------------------------------------------------------------
(* The conversion applied to bounded inputs.                               *)

\* The handler and the relay at rest.
GatewayIdle ==
  /\ impl = "worker"
  /\ startupEnv = NoEnv
  /\ processEnv = NoEnv
  /\ pc = "idle"
  /\ req = NoRequest
  /\ gate = NoGate
  /\ effectiveEnv = NoEnv
  /\ adapter = "none"
  /\ upstreamReq = NoFetch
  /\ upstreamRes = NoUpstreamResponse
  /\ resp = NoResponse
  /\ relay = "idle"
  /\ upstream = <<>>
  /\ delivered = <<>>
  /\ buffer = <<>>
  /\ frames = <<>>
  /\ callerClosed = FALSE
  /\ readFailed = FALSE
  /\ lateError = NoError
  /\ fetches = 0
  /\ pending = <<>>
  /\ callerGone = FALSE
  /\ cancelled = FALSE
  /\ readsSinceGone = 0

gatewayVars == <<chatVars, relayVars, pc, resp, relay, fetches>>

InitConvert ==
  /\ GatewayIdle
  /\ convIn \in {[kind |-> "messages", messages |-> ms, parts |-> <<>>] : ms \in MessageLists}
                  \cup {[kind |-> "parts", messages |-> <<>>, parts |-> ps] : ps \in PartLists}
  /\ convOut = NoConvOutput
  /\ StreamsIdle
  /\ ClientIdle
  /\ AppIdle

\* callAnthropic / streamAnthropic build the body of their request.
ConvertMessages ==
  /\ convIn.kind = "messages"
  /\ ~convOut.done
  /\ convOut' = [done |-> TRUE, system |-> AnthropicBody(convIn.messages).system,
                 messages |-> AnthropicBody(convIn.messages).messages, parts |-> <<>>]
  /\ UNCHANGED <<convIn, gatewayVars, streams, client, appVars>>

\* convertContentPartsToAnthropic(parts) returns.
ConvertParts ==
  /\ convIn.kind = "parts"
  /\ ~convOut.done
  /\ convOut' = [done |-> TRUE, system |-> "", messages |-> <<>>,
                 parts |-> convertContentPartsToAnthropic(convIn.parts)]
  /\ UNCHANGED <<convIn, gatewayVars, streams, client, appVars>>

NextConvert ==
  \/ ConvertMessages
  \/ ConvertParts

SpecConvert == InitConvert /\ [][NextConvert]_vars

----------------------------------------------------------------------------
(* Two streaming requests served at the same time.                         *)

\* The bodies the upstreams of the two requests send.
ConcurrentTexts(op) ==
  IF op = "streamAnthropic"
    THEN {Join(<<DataLine("delta A")>>), Join(<<DataLine("delta B"), <<"data:", SP, "[DONE]">>>>)}
  ELSE {Join(<<DataLine("chunk A")>>), Join(<<DataLine("chunk B"), <<"data:", SP, "[DONE]">>>>)}

\* The callers served side by side.
Callers == 1..2

\* One line buffer for all the calls of the adapter.
M_OwnBufferShared(ss, r) == ss[1].buffer

\* let buffer = '': declared inside the function that relays, one for each
\* call of it.
OwnBuffer(ss, r) == ss[r].buffer

InitConcurrent ==
  /\ GatewayIdle
  /\ ConvIdle
  /\ ClientIdle
  /\ AppIdle
  /\ streams \in [Callers ->
                   [adapter : {"streamOpenAI", "streamAnthropic"},
                    upstream : ConcurrentTexts("streamOpenAI") \cup ConcurrentTexts("streamAnthropic"),
                    delivered : {<<>>}, buffer : {<<>>}, frames : {<<>>},
                    closed : {FALSE}]]
  /\ \A r \in Callers : streams[r].upstream \in ConcurrentTexts(streams[r].adapter)

\* One turn of the while loop of the relay of request r.
ReadChunkOf(r) ==
  /\ ~streams[r].closed
  /\ \E n \in 1..Len(streams[r].upstream) :
       LET chunk == SubSeq(streams[r].upstream, 1, n)
           turn == RelayChunk(streams[r].adapter, OwnBuffer(streams, r), chunk)
       IN streams' = [streams EXCEPT
                        ![r].upstream = SubSeq(streams[r].upstream, n + 1, Len(streams[r].upstream)),
                        ![r].delivered = streams[r].delivered \o chunk,
                        ![r].buffer = turn.buffer,
                        ![r].frames = streams[r].frames \o turn.frames]
  /\ UNCHANGED <<gatewayVars, convVars, client, appVars>>

\* The read of request r reports the end of the body: break, and the
\* stream to the caller is closed.
ReadDoneOf(r) ==
  /\ ~streams[r].closed
  /\ streams[r].upstream = <<>>
  /\ streams' = [streams EXCEPT ![r].closed = TRUE]
  /\ UNCHANGED <<gatewayVars, convVars, client, appVars>>

NextConcurrent ==
  \/ \E r \in Callers : ReadChunkOf(r)
  \/ \E r \in Callers : ReadDoneOf(r)

SpecConcurrent == InitConcurrent /\ [][NextConcurrent]_vars

----------------------------------------------------------------------------
(* The browser's streamChat.                                               *)

\* What the client's JSON.parse gives for the text between the braces: the
\* fields parseSSELine looks at.
ClientObjectOf(b) ==
  CASE b = "content A" -> [delta |-> Undefined, content |-> "A", text |-> Undefined]
    [] b = "content B" -> [delta |-> Undefined, content |-> "B", text |-> Undefined]
    [] b = "chunk A" -> [delta |-> "A", content |-> Undefined, text |-> Undefined]
    [] b = "text A" -> [delta |-> Undefined, content |-> Undefined, text |-> "A"]
    [] OTHER -> [delta |-> Undefined, content |-> Undefined, text |-> Undefined]

ClientJsonBodies == {"content A", "content B", "chunk A", "text A", "content none"}

ClientJSONparse(data) ==
  IF Len(data) = 3 /\ data[1] = "{" /\ data[2] \in ClientJsonBodies /\ data[3] = "}"
    THEN [ok |-> TRUE, value |-> ClientObjectOf(data[2])]
  ELSE [ok |-> FALSE, value |-> ClientObjectOf("")]

\* parseSSELine(line): the content as a text, isNull where it returns null.
parseSSELine(line) ==
  LET data == IF StartsWith(line, DataPrefix) THEN SliceData(line) ELSE line
      parsed == ClientJSONparse(data)
      null == [isNull |-> TRUE, text |-> <<>>]
  IN IF data = <<"[DONE]">> THEN null
     ELSE IF parsed.ok
       THEN IF Truthy(parsed.value.delta) THEN [isNull |-> FALSE, text |-> <<parsed.value.delta>>]
            ELSE IF Truthy(parsed.value.content)
              THEN [isNull |-> FALSE, text |-> <<parsed.value.content>>]
            ELSE IF Truthy(parsed.value.text) THEN [isNull |-> FALSE, text |-> <<parsed.value.text>>]
            ELSE null
     ELSE IF Trim(data) # <<>> THEN [isNull |-> FALSE, text |-> data]
     ELSE null

\* The body of the for loop on one line: the contents given to onChunk.
ClientLine(line) ==
  IF Trim(line) = <<>> THEN <<>>
  ELSE IF ~parseSSELine(Trim(line)).isNull /\ parseSSELine(Trim(line)).text # <<>>
    THEN <<parseSSELine(Trim(line)).text>>
  ELSE <<>>

RECURSIVE ClientLines(_)
ClientLines(lines) ==
  IF lines = <<>> THEN <<>> ELSE ClientLine(Head(lines)) \o ClientLines(Tail(lines))

\* onChunk called with the accumulated text as it was before the content
\* was added.
RECURSIVE M_OnChunkAccumulatedStale(_, _)
M_OnChunkAccumulatedStale(full, contents) ==
  IF contents = <<>> THEN <<>>
  ELSE <<full>> \o M_OnChunkAccumulatedStale(full \o Head(contents), Tail(contents))

\* fullContent += content; onChunk(content, fullContent), for the contents
\* of one turn: the second arguments of the calls of onChunk.
RECURSIVE OnChunkAccumulated(_, _)
OnChunkAccumulated(full, contents) ==
  IF contents = <<>> THEN <<>>
  ELSE <<full \o Head(contents)>> \o OnChunkAccumulated(full \o Head(contents), Tail(contents))

\* The frames of the gateway as the client receives them.
GatewayLines ==
  {<<>>,
   <<"data:", SP, "{", "content A", "}">>,
   <<"data:", SP, "{", "content B", "}">>,
   <<"data:", SP, "[DONE]">>}

\* The most lines of a response.
MaxClientLines == 3

\* The bodies the client may receive: up to MaxClientLines lines, the last
\* of them ended by a line feed or not.
ClientBodies ==
  UNION {{Join(ls), SubSeq(Join(ls), 1, Len(Join(ls)) - 1)} :
           ls \in UNION {[1..n -> GatewayLines] : n \in 0..MaxClientLines}}

\* fetch has resolved with the gateway's response.
InitClient ==
  /\ GatewayIdle
  /\ ConvIdle
  /\ StreamsIdle
  /\ AppIdle
  /\ \E ok \in BOOLEAN, body \in ClientBodies :
       client = [NoClient EXCEPT !.pc = "fetched", !.ok = ok, !.body = body]

\* if (!response.ok) throw new Error(`AI request failed: ${error}`)
StreamChatRefused ==
  /\ client.pc = "fetched"
  /\ ~client.ok
  /\ client' = [client EXCEPT !.pc = "threw"]
  /\ UNCHANGED <<gatewayVars, convVars, streams, appVars>>

\* response.body.getReader()
StreamChatGetsReader ==
  /\ client.pc = "fetched"
  /\ client.ok
  /\ client' = [client EXCEPT !.pc = "reading"]
  /\ UNCHANGED <<gatewayVars, convVars, streams, appVars>>

\* One turn of the while loop: a chunk, the split, the pop and the for
\* loop.
StreamChatReads ==
  /\ client.pc = "reading"
  /\ \E n \in 1..Len(client.body) :
       LET chunk == SubSeq(client.body, 1, n)
           lines == Split(client.buffer \o chunk)
           contents == ClientLines(SubSeq(lines, 1, Len(lines) - 1))
       IN client' = [client EXCEPT
                       !.body = SubSeq(client.body, n + 1, Len(client.body)),
                       !.received = client.received \o chunk,
                       !.buffer = Pop(lines),
                       !.fullContent = client.fullContent \o Flat(contents),
                       !.chunks = client.chunks \o contents,
                       !.accumulated = client.accumulated
                                         \o OnChunkAccumulated(client.fullContent, contents)]
  /\ UNCHANGED <<gatewayVars, convVars, streams, appVars>>

\* done: break, the rest of the buffer, the finally block, onComplete and
\* return fullContent.
StreamChatEnds ==
  /\ client.pc = "reading"
  /\ client.body = <<>>
  /\ LET contents == ClientLine(client.buffer)
     IN client' = [client EXCEPT
                     !.pc = "returned",
                     !.fullContent = client.fullContent \o Flat(contents),
                     !.chunks = client.chunks \o contents,
                     !.accumulated = client.accumulated
                                       \o OnChunkAccumulated(client.fullContent, contents),
                     !.completed = TRUE,
                     !.completions = <<client.fullContent \o Flat(contents)>>,
                     !.result = client.fullContent \o Flat(contents)]
  /\ UNCHANGED <<gatewayVars, convVars, streams, appVars>>

\* reader.read() rejects: the finally block, and the error leaves
\* streamChat.
StreamChatReadFails ==
  /\ client.pc = "reading"
  /\ client' = [client EXCEPT !.pc = "threw"]
  /\ UNCHANGED <<gatewayVars, convVars, streams, appVars>>

NextClient ==
  \/ StreamChatRefused
  \/ StreamChatGetsReader
  \/ StreamChatReads
  \/ StreamChatEnds
  \/ StreamChatReadFails

SpecClient == InitClient /\ [][NextClient]_vars

----------------------------------------------------------------------------
(* The browser's quota service.                                            *)

\* The days the model runs through, and the most calls of consumeQuota on
\* one of them.
MaxDays == 3
MaxConsume == 3

\* return 10: the default of getDailyQuota.
DefaultQuota == 10

\* An item that JSON.parse rejects.
Garbage == [present |-> TRUE, json |-> FALSE, date |-> 0, used |-> 0]

\* JSON.stringify(data) of saveQuotaData; JSON.parse gives date and used
\* back.
JSONstringifyQuota(data) ==
  [present |-> TRUE, json |-> TRUE, date |-> data.date, used |-> data.used]

\* getQuotaData without the comparison of the date.
M_getQuotaDataAnyDate(stored, today) ==
  IF ~stored.present THEN [date |-> today, used |-> 0]
  ELSE IF ~stored.json THEN [date |-> today, used |-> 0]
  ELSE [date |-> stored.date, used |-> stored.used]

\* getQuotaData(), today being getTodayString(): nothing stored, an item
\* that does not parse, an item of another date, or the item.
getQuotaData(stored, today) ==
  IF ~stored.present THEN [date |-> today, used |-> 0]
  ELSE IF ~stored.json THEN [date |-> today, used |-> 0]
  ELSE IF stored.date # today THEN [date |-> today, used |-> 0]
  ELSE [date |-> stored.date, used |-> stored.used]

\* window.__RUNTIME_CONFIG__?.DAILY_QUOTA: missing, 0 or 2.
RuntimeQuotas ==
  {[isNumber |-> FALSE, value |-> 0], [isNumber |-> TRUE, value |-> 0],
   [isNumber |-> TRUE, value |-> 2]}

\* import.meta.env.VITE_DAILY_QUOTA and its parseInt: missing, not a
\* number, 0 or 1.
BuildTimeQuotas ==
  {[present |-> FALSE, isNaN |-> FALSE, value |-> 0],
   [present |-> TRUE, isNaN |-> TRUE, value |-> 0],
   [present |-> TRUE, isNaN |-> FALSE, value |-> 0],
   [present |-> TRUE, isNaN |-> FALSE, value |-> 1]}

getDailyQuota(q) ==
  IF q.runtimeQuota.isNumber /\ q.runtimeQuota.value > 0 THEN q.runtimeQuota.value
  ELSE IF q.buildTimeQuota.present /\ ~q.buildTimeQuota.isNaN /\ q.buildTimeQuota.value > 0
    THEN q.buildTimeQuota.value
  ELSE DefaultQuota

getUsedCount(q) == getQuotaData(q.stored, q.today).used

\* Math.max(0, quota - used)
getRemainingCount(q) ==
  IF getDailyQuota(q) - getUsedCount(q) > 0 THEN getDailyQuota(q) - getUsedCount(q) ELSE 0

\* The page is opened on day 1 with nothing stored, an item that does not
\* parse, or the item of an earlier day.
InitQuota ==
  /\ GatewayIdle
  /\ ConvIdle /\ StreamsIdle /\ ClientIdle
  /\ RepoIdle /\ ToastIdle
  /\ \E r \in RuntimeQuotas, b \in BuildTimeQuotas,
        st \in {NoItem, Garbage} \cup {JSONstringifyQuota([date |-> 0, used |-> n]) : n \in 1..2} :
       quota = [today |-> 1, stored |-> st, runtimeQuota |-> r, buildTimeQuota |-> b,
                consumed |-> 0]

\* consumeQuota(): data = getQuotaData(); data.used += 1; saveQuotaData(data)
consumeQuota ==
  /\ quota.consumed < MaxConsume
  /\ LET data == getQuotaData(quota.stored, quota.today)
     IN quota' = [quota EXCEPT
                    !.stored = JSONstringifyQuota([date |-> data.date, used |-> data.used + 1]),
                    !.consumed = quota.consumed + 1]
  /\ UNCHANGED <<gatewayVars, convVars, streams, client, repo, toast>>

\* The date changes: getTodayString() returns the next day.
DayPasses ==
  /\ quota.today < MaxDays
  /\ quota' = [quota EXCEPT !.today = quota.today + 1, !.consumed = 0]
  /\ UNCHANGED <<gatewayVars, convVars, streams, client, repo, toast>>

NextQuota ==
  \/ consumeQuota
  \/ DayPasses

SpecQuota == InitQuota /\ [][NextQuota]_vars

----------------------------------------------------------------------------
(* ProjectRepository.delete.                                               *)

ProjectIds == {"p1", "p2"}

\* The version histories: two of project p1, one of project p2.
VersionRecords ==
  {[id |-> "v1", projectId |-> "p1"], [id |-> "v2", projectId |-> "p1"],
   [id |-> "v3", projectId |-> "p2"]}

\* The ids delete is called with: those of the projects and one of none.
DeleteIds == ProjectIds \cup {"p3"}

\* The tables as a transaction or a reader outside it sees them.
Tables(r) == [projects |-> r.projects, versions |-> r.versions]

\* A write that is committed at once, with no transaction around it.
M_TxWriteAutocommit(r, work) ==
  [r EXCEPT !.tx.work = work, !.projects = work.projects, !.versions = work.versions]

\* A write inside db.transaction('rw', [db.projects, db.versionHistory],
\* ...): it changes the tables as the transaction sees them, and nothing
\* outside it before the transaction commits.
TxWrite(r, work) == [r EXCEPT !.tx.work = work]

InitRepo ==
  /\ GatewayIdle
  /\ ConvIdle /\ StreamsIdle /\ ClientIdle
  /\ QuotaIdle /\ ToastIdle
  /\ \E ps \in SUBSET ProjectIds, vs \in SUBSET VersionRecords :
       repo = [projects |-> ps, versions |-> vs, tx |-> NoTx]

\* delete(id) is called and its transaction begins.
DeleteBegins ==
  /\ repo.tx.step \in {"none", "committed", "aborted"}
  /\ \E id \in DeleteIds :
       repo' = [repo EXCEPT !.tx = [step |-> "begun", id |-> id, before |-> Tables(repo),
                                    work |-> Tables(repo)]]
  /\ UNCHANGED <<gatewayVars, convVars, streams, client, quota, toast>>

\* await db.versionHistory.where('projectId').equals(id).delete()
DeleteVersions ==
  /\ repo.tx.step = "begun"
  /\ repo' = [TxWrite(repo, [repo.tx.work EXCEPT
                               !.versions = {v \in repo.tx.work.versions :
                                               v.projectId # repo.tx.id}])
                EXCEPT !.tx.step = "versionsDeleted"]
  /\ UNCHANGED <<gatewayVars, convVars, streams, client, quota, toast>>

\* await db.projects.delete(id)
DeleteProject ==
  /\ repo.tx.step = "versionsDeleted"
  /\ repo' = [TxWrite(repo, [repo.tx.work EXCEPT
                               !.projects = repo.tx.work.projects \ {repo.tx.id}])
                EXCEPT !.tx.step = "projectDeleted"]
  /\ UNCHANGED <<gatewayVars, convVars, streams, client, quota, toast>>

\* The callback of the transaction has returned: the transaction commits.
DeleteCommits ==
  /\ repo.tx.step = "projectDeleted"
  /\ repo' = [repo EXCEPT !.projects = repo.tx.work.projects,
                          !.versions = repo.tx.work.versions,
                          !.tx.step = "committed"]
  /\ UNCHANGED <<gatewayVars, convVars, streams, client, quota, toast>>

\* A request of the transaction fails: the transaction aborts, its writes
\* are undone and delete rejects.
DeleteAborts ==
  /\ repo.tx.step \in {"begun", "versionsDeleted", "projectDeleted"}
  /\ repo' = [repo EXCEPT !.projects = repo.tx.before.projects,
                          !.versions = repo.tx.before.versions,
                          !.tx.step = "aborted"]
  /\ UNCHANGED <<gatewayVars, convVars, streams, client, quota, toast>>

NextRepo ==
  \/ DeleteBegins
  \/ DeleteVersions
  \/ DeleteProject
  \/ DeleteCommits
  \/ DeleteAborts

SpecRepo == InitRepo /\ [][NextRepo]_vars

----------------------------------------------------------------------------
(* The toast store.                                                        *)

\* The most toasts added and the most advances of the clock.
MaxToasts == 3
MaxTicks == 3

\* setTimeout(..., 5000)
ToastDelay == 5000

\* state.toasts.filter((t) => t.id !== id)
RemoveId(toasts, id) == SelectSeq(toasts, LAMBDA t : t.id # id)

\* The page is loaded at millisecond 1 of the clock with an empty store.
InitToast ==
  /\ GatewayIdle
  /\ ConvIdle /\ StreamsIdle /\ ClientIdle
  /\ QuotaIdle /\ RepoIdle
  /\ toast = [NoToast EXCEPT !.now = 1]

\* addToast(toast): the id is `toast-${Date.now()}`; the toast is appended
\* and a timer of 5 seconds set for its id.  n tells the toasts apart.
addToast ==
  /\ toast.added < MaxToasts
  /\ toast' = [toast EXCEPT
                 !.toasts = Append(toast.toasts, [id |-> toast.now, n |-> toast.added + 1]),
                 !.timers = Append(toast.timers, [id |-> toast.now, due |-> toast.now + ToastDelay]),
                 !.added = toast.added + 1]
  /\ UNCHANGED <<gatewayVars, convVars, streams, client, quota, repo>>

\* removeToast(id), called with the id of a toast shown.
removeToast ==
  /\ \E k \in 1..Len(toast.toasts) :
       toast' = [toast EXCEPT !.toasts = RemoveId(toast.toasts, toast.toasts[k].id),
                              !.removals = toast.removals + 1]
  /\ UNCHANGED <<gatewayVars, convVars, streams, client, quota, repo>>

\* The oldest timer fires, 5 seconds after it was set or later.
TimerFires ==
  /\ toast.timers # <<>>
  /\ Head(toast.timers).due <= toast.now
  /\ toast' = [toast EXCEPT !.toasts = RemoveId(toast.toasts, Head(toast.timers).id),
                            !.timers = Tail(toast.timers),
                            !.removals = toast.removals + 1]
  /\ UNCHANGED <<gatewayVars, convVars, streams, client, quota, repo>>

\* Date.now() moves on, by a millisecond or by 5 seconds.
ClockTicks ==
  /\ toast.ticks < MaxTicks
  /\ \E d \in {1, ToastDelay} :
       toast' = [toast EXCEPT !.now = toast.now + d, !.ticks = toast.ticks + 1]
  /\ UNCHANGED <<gatewayVars, convVars, streams, client, quota, repo>>

NextToast ==
  \/ addToast
  \/ removeToast
  \/ TimerFires
  \/ ClockTicks

SpecToast == InitToast /\ [][NextToast]_vars

----------------------------------------------------------------------------
(* Properties of the conversion.                                           *)

\* The messages of the list that are not system messages, in their order.
NonSystemOf(msgs) == SelectSeq(msgs, LAMBDA m : m.role # "system")

\* The system messages of the list, in their order.
SystemsOf(msgs) == SelectSeq(msgs, LAMBDA m : m.role = "system")

\* The content holds some text.
HasText(content) ==
  IF content.isString THEN content.text # ""
  ELSE \E i \in 1..Len(content.parts) :
         content.parts[i].type = "text" /\ Truthy(content.parts[i].text)

\* C21 as claimed: the messages field of the body holds exactly the
\* messages that are not system messages, in their original order; the
\* system field is the text of the first system message, empty when there
\* is none; further system messages are dropped.
C21_Original ==
  (convOut.done /\ convIn.kind = "messages") =>
    LET rest == NonSystemOf(convIn.messages)
        systems == SystemsOf(convIn.messages)
    IN /\ Len(convOut.messages) = Len(rest)
       /\ \A i \in 1..Len(rest) :
            /\ convOut.messages[i].role = rest[i].role
            /\ convOut.messages[i].content.isString = rest[i].content.isString
            /\ convOut.messages[i].content.text = rest[i].content.text
       /\ systems = <<>> => convOut.system = ""
       /\ systems # <<>> =>
            /\ systems[1].content.isString => convOut.system = systems[1].content.text
            /\ HasText(systems[1].content) => convOut.system # ""

\* The first system message gives its text as a list of parts; the body
\* has the two other messages and an empty system field.
C21_Witness ==
  /\ convOut.done
  /\ convIn.messages =
       <<[role |-> "system", content |-> PartsContent(<<TextPart("be brief")>>)],
         [role |-> "user", content |-> StringContent("hello")],
         [role |-> "assistant", content |-> StringContent("done")]>>
  /\ convOut.system = ""
  /\ Len(convOut.messages) = 2

\* The URL has the form data:<mediaType>;base64,<payload>, the encoding at
\* piece k.
DataUrlAt(url, k) ==
  /\ url[1] = "data:"
  /\ k > 2 /\ k < Len(url)
  /\ url[k] = ";base64,"
  /\ \A n \in 2..(k - 1) : url[n] # ";base64,"

\* The URL has the form data:image/<subtype>;base64,<payload>, with a
\* subtype without semicolon and a payload without line break.
ImageDataUrlAt(url, k) ==
  /\ DataUrlAt(url, k)
  /\ url[2] = "image/"
  /\ k > 3
  /\ \A n \in 3..(k - 1) : url[n] \notin WithSemicolon
  /\ \A n \in (k + 1)..Len(url) : url[n] \notin {LF, CR}

\* The part is the text part that stands for an image given by its URL.
Placeholder(part, url) ==
  /\ part.type = "text"
  /\ part.text = <<"[Image URL: ">> \o url \o <<"]">>

\* The part is the inline image of the URL, the encoding at piece k.
Inline(part, url, k) ==
  /\ part.type = "image"
  /\ part.media_type = SubSeq(url, 2, k - 1)
  /\ part.data = SubSeq(url, k + 1, Len(url))

\* The parts returned that came from image parts: images and placeholders.
FromImages(parts) ==
  SelectSeq(parts, LAMBDA p : p.type = "image" \/ (p.text # <<>> /\ p.text[1] = "[Image URL: "))

\* C22 as claimed: every image part becomes an inline image with the media
\* type and the payload of its URL when it has the form
\* data:<mediaType>;base64,<payload>, and a text part holding the URL
\* otherwise.
C22_Original ==
  (convOut.done /\ convIn.kind = "parts") =>
    LET images == SelectSeq(convIn.parts, LAMBDA p : p.type = "image_url")
        outs == FromImages(convOut.parts)
    IN /\ Len(outs) = Len(images)
       /\ \A i \in 1..Len(images) :
            LET url == images[i].url
            IN IF \E k \in 1..Len(url) : DataUrlAt(url, k)
                 THEN \E k \in 1..Len(url) : DataUrlAt(url, k) /\ Inline(outs[i], url, k)
               ELSE Placeholder(outs[i], url)

\* C22: every image part with a non-empty URL becomes an inline image with
\* the media type and the payload of its URL when it has the form
\* data:image/<subtype>;base64,<payload>, subtype and payload non-empty,
\* the subtype without semicolon, the payload without line break, and the
\* text part '[Image URL: <url>]' otherwise; an image part without URL
\* gives no part.
C22_ImageConversion ==
  (convOut.done /\ convIn.kind = "parts") =>
    LET images == SelectSeq(convIn.parts, LAMBDA p : p.type = "image_url" /\ p.url # <<>>)
        outs == FromImages(convOut.parts)
    IN /\ Len(outs) = Len(images)
       /\ \A i \in 1..Len(images) :
            LET url == images[i].url
            IN IF \E k \in 1..Len(url) : ImageDataUrlAt(url, k)
                 THEN \E k \in 1..Len(url) : ImageDataUrlAt(url, k) /\ Inline(outs[i], url, k)
               ELSE Placeholder(outs[i], url)

\* A PNG as data URL and a web address, converted to an inline image and a
\* placeholder.
C22_Witness ==
  /\ convOut.done
  /\ convIn.parts = <<ImagePart(<<"data:", "image/", "png", ";base64,", "AAAA">>),
                      ImagePart(<<"https://h/p.png">>)>>
  /\ convOut.parts = <<AnthropicImage(<<"image/", "png">>, <<"AAAA">>),
                       AnthropicText(<<"[Image URL: ", "https://h/p.png", "]">>)>>

\* The part is of a type the conversion knows.
Recognized(part) == part.type \in {"text", "image_url"}

RECURSIVE Flatten(_)
Flatten(seqs) == IF seqs = <<>> THEN <<>> ELSE Head(seqs) \o Flatten(Tail(seqs))

\* C23: the conversion returns for every list of parts, also with parts of
\* unknown type; those give no part, and the parts returned are what the
\* parts of known type give one by one, in their order.
C23_UnknownPartsDropped ==
  (convOut.done /\ convIn.kind = "parts") =>
    LET known == SelectSeq(convIn.parts, Recognized)
    IN /\ convOut.parts =
            Flatten([i \in 1..Len(known) |-> convertContentPartsToAnthropic(<<known[i]>>)])
       /\ Len(convOut.parts) <= Len(known)
       /\ \A i \in 1..Len(convOut.parts) :
            convOut.parts[i].type = "image" \/ convOut.parts[i].text # <<>>

\* A part of unknown type before a text part: only the text is returned.
C23_Witness ==
  /\ convOut.done
  /\ convIn.parts = <<OtherPart("hi"), TextPart("hi")>>
  /\ convOut.parts = <<AnthropicText(<<"hi">>)>>

----------------------------------------------------------------------------
(* Properties of the relay and its caller, and of the dispatch.            *)

\* C24 as claimed: if the caller disconnects while the stream is in
\* progress, the gateway stops reading the upstream's body and cancels it
\* promptly: at most the read in flight resolves, and the relay does not
\* end without having cancelled.
C24_Original ==
  callerGone =>
    /\ readsSinceGone <= 1
    /\ relay = "ended" => cancelled

\* The caller of the Express server left before the first chunk; the relay
\* read the body to its end in three chunks and wrote its frames.
C24_Witness ==
  /\ callerGone
  /\ impl = "express"
  /\ readsSinceGone = 3
  /\ relay = "ended" /\ ~readFailed /\ ~cancelled
  /\ frames = <<ContentFrame("A"), DoneFrame>>

\* C25: no error is retried: for every inbound request the gateway issues
\* at most one upstream HTTP request, none before the adapter is reached
\* and none more after a failure of the upstream.
C25_NoRetry ==
  /\ fetches <= 1
  /\ fetches = (IF upstreamReq.sent THEN 1 ELSE 0)

\* The upstream refused the one request and the handler answered.
C25_Witness ==
  /\ UpstreamRefused
  /\ fetches = 1
  /\ resp.status = 500

\* C26 as claimed: while streaming, the relay does not read the next chunk
\* of the upstream's body until the caller has taken every frame written
\* for the chunks before.
C26_Original == [][delivered' # delivered => pending = <<>>]_vars

\* The Express server has written two frames, of two lines, and the caller
\* has taken none.
C26_Witness ==
  /\ impl = "express"
  /\ relay = "reading"
  /\ pending = <<ContentFrame("A"), ContentFrame("B")>>
  /\ Len(CompleteLines(delivered)) = 2

\* The line is a data line whose payload is exactly the sentinel.
IsDoneLine(line) ==
  StartsWith(Trim(line), DataPrefix) /\ SliceData(Trim(line)) = <<"[DONE]">>

\* C29: when the payload of a line is exactly [DONE] the relay writes the
\* end marker and goes on: it does not stop reading, and the increments of
\* the lines after the sentinel are still written, in their order.
C29_SentinelDoesNotStop ==
  Relaying =>
    LET carrying == SelectSeq(CompleteLines(delivered), CarriesFrame)
    IN /\ \A i \in 1..Len(carrying) :
            IsDoneLine(carrying[i]) =>
              /\ Len(frames) = Len(carrying)
              /\ frames[i] = DoneFrame
              /\ \A j \in (i + 1)..Len(carrying) :
                   <<frames[j]>> = LineFrames(adapter, carrying[j])
       /\ callerClosed => (readFailed \/ upstream = <<>>)

\* An increment came after the sentinel and was written after it.
C29_Witness ==
  /\ UpstreamDone
  /\ CompleteLines(delivered) = <<<<"data:", SP, "[DONE]">>, DataLine("chunk A")>>
  /\ frames = <<DoneFrame, ContentFrame("A")>>

\* The request was let in by the gate, where there is one, and has a
\* messages array.
Admitted ==
  /\ pc # "idle"
  /\ req.parsed
  /\ gate.ran => gate.valid
  /\ req.messages.kind = "array"

\* C30: for every admitted request with a messages array exactly one
\* adapter operation is invoked: of the Anthropic adapter if and only if
\* the effective provider is 'anthropic', of the OpenAI adapter otherwise,
\* also when the provider is missing or unknown; the streaming operation
\* if and only if stream is true, which it is not when absent.  No adapter
\* operation is invoked for any other request.
C30_AdapterSelection ==
  /\ Admitted =>
       /\ adapter = (IF req.stream = "true" THEN "stream" ELSE "call")
                       \o (IF effectiveEnv.AI_PROVIDER = "anthropic" THEN "Anthropic"
                           ELSE "OpenAI")
       /\ upstreamReq.sent =>
            /\ upstreamReq.stream = (req.stream = "true")
            /\ upstreamReq.path = (IF effectiveEnv.AI_PROVIDER = "anthropic" THEN "/messages"
                                   ELSE "/chat/completions")
  /\ ~Admitted => adapter = "none"

\* A provider the gateway does not know and no stream field: callOpenAI.
C30_Witness ==
  /\ Admitted
  /\ effectiveEnv.AI_PROVIDER = "gemini"
  /\ req.stream = Undefined
  /\ adapter = "callOpenAI"
  /\ upstreamReq.sent

----------------------------------------------------------------------------
(* Properties of concurrent requests and of the client.                    *)

\* C27: two requests streamed at the same time do not interfere: the
\* frames written to each caller and the buffer of its relay are those of
\* its own upstream's body, read so far, under its own adapter.
C27_NoInterference ==
  \A r \in DOMAIN streams :
    /\ streams[r].frames = RelayChunk(streams[r].adapter, <<>>, streams[r].delivered).frames
    /\ streams[r].buffer = RelayChunk(streams[r].adapter, <<>>, streams[r].delivered).buffer
    /\ streams[r].closed => streams[r].upstream = <<>>

\* Both relays are in the middle of a line, of different upstreams, after
\* the first wrote a frame.
C27_Witness ==
  /\ streams # <<>>
  /\ streams[1].adapter = "streamOpenAI" /\ streams[2].adapter = "streamAnthropic"
  /\ streams[1].frames = <<ContentFrame("B")>> /\ streams[1].buffer = <<"data:">>
  /\ streams[2].frames = <<>> /\ streams[2].buffer = <<"data:", SP, "{">>
  /\ ~streams[1].closed /\ ~streams[2].closed

\* The text holds a line that is the end marker.
DoneSeen(text) == \E i \in 1..Len(Split(text)) : IsDoneLine(Split(text)[i])

\* C28 as claimed: streamChat takes the end of the stream without the end
\* marker for a failure: it calls onComplete and returns only if the
\* marker was received.
C28_Original == (client.completed \/ client.pc = "returned") => DoneSeen(client.received)

\* The stream ended after one frame and without end marker; streamChat
\* called onComplete and returned the content.
C28_Witness ==
  /\ client.pc = "returned"
  /\ client.completed
  /\ client.received = <<"data:", SP, "{", "content A", "}", LF, LF>>
  /\ client.fullContent = <<"A">>

----------------------------------------------------------------------------
(* Properties of the closing of the stream and of the frames' content.     *)

\* C31 as claimed: a streaming response that was started is closed toward
\* the caller once the upstream's body has ended or a read of it failed,
\* also when the upstream's response has no body: when the relay has
\* finished, the caller's stream is closed.
C31_Original == relay = "ended" => callerClosed

\* The Worker's relay returned on a response without body and left the
\* caller's stream open.
C31_Witness ==
  /\ impl = "worker"
  /\ adapter = "streamOpenAI"
  /\ relay = "ended"
  /\ ~upstreamRes.hasBody
  /\ ~callerClosed

\* The increment of the event on a line, as the adapter reads it.
IncrementOf(line) ==
  IF adapter = "streamAnthropic" THEN JSONparse(SliceData(Trim(line))).value.text
  ELSE JSONparse(SliceData(Trim(line))).value.content

\* The line is an event with an increment that is a non-empty text.
HasIncrement(line) ==
  /\ WellFormed(line)
  /\ SliceData(Trim(line)) # <<"[DONE]">>
  /\ IncrementOf(line) \notin {Undefined, Null, ""}

\* C33: the relay writes no content frame whose content is the empty
\* string: an event whose increment is missing, null or empty yields no
\* frame, so there are no more content frames than events with a non-empty
\* increment.
C33_NoEmptyContentFrame ==
  Relaying =>
    /\ \A i \in 1..Len(frames) :
         IsContentFrame(frames[i]) => frames[i].content \notin {Undefined, Null, ""}
    /\ Len(SelectSeq(frames, IsContentFrame))
         <= Len(SelectSeq(CompleteLines(delivered), HasIncrement))

\* An event with an empty increment came before one with the increment A;
\* one frame was written.
C33_Witness ==
  /\ UpstreamDone
  /\ adapter = "streamOpenAI"
  /\ CompleteLines(delivered) = <<DataLine("chunk empty"), DataLine("chunk A")>>
  /\ frames = <<ContentFrame("A")>>

\* C35 as claimed: the relay of the Worker and that of the Express server
\* write the same frames and both close the caller's stream, for the same
\* chunks of the upstream and for each provider: the frames are those of
\* the text read so far, whichever the implementation, and the caller's
\* stream is closed when either relay has finished.
C35_Original ==
  (impl \in {"worker", "express"} /\ relay \in {"reading", "ended"}) =>
    /\ frames = RelayChunk(adapter, <<>>, delivered).frames
    /\ relay = "ended" => callerClosed

\* The response of an Anthropic-compatible upstream had no body: the
\* Worker's relay finished without closing, where the Express server ends
\* the response.
C35_Witness ==
  /\ impl = "worker"
  /\ adapter = "streamAnthropic"
  /\ relay = "ended"
  /\ ~upstreamRes.hasBody
  /\ frames = <<>>
  /\ ~callerClosed

\* With a body the two relays agree: the frames are those of one turn of
\* the loop on the text read so far, and a relay that finished has closed.
BodiesRelayedAlike ==
  (Relaying /\ impl \in {"worker", "express"}) =>
    /\ frames = RelayChunk(adapter, <<>>, delivered).frames
    /\ relay = "ended" => callerClosed

----------------------------------------------------------------------------
(* Properties of the server's key and of the three dispatchers.            *)

\* The request supplied the password the server is configured with.
PasswordMatched ==
  /\ Truthy(ServerDefaults.ACCESS_PASSWORD)
  /\ req.password = ServerDefaults.ACCESS_PASSWORD

Answer(i, op, u) ==
  IF op \in {"callOpenAI", "callAnthropic"}
    THEN LET result == IF op = "callAnthropic" THEN callAnthropic(u) ELSE callOpenAI(u)
         IN IF result.threw THEN ErrorResponse(500, result.error)
            ELSE ContentResponse(result.value)
  ELSE LET failure == UpstreamFailure(IF op = "streamAnthropic" THEN "Anthropic API error: "
                                      ELSE "OpenAI API error: ", u)
       IN IF ~u.reached \/ ~u.ok THEN Caught(AwaitsStream(i), failure.error)
          ELSE StreamResponse

\* The response of implementation i to request r under the environment env
\* when the upstream behaves as u.
FinalResponse(i, env, r, u) ==
  IF HandlerOutcome(i, env, r).pc = "done" THEN HandlerOutcome(i, env, r).resp
  ELSE Answer(i, HandlerOutcome(i, env, r).adapter, u)

\* The response of the handler that ran is the one FinalResponse gives for
\* its implementation.
ResponseIsFinalResponse ==
  pc = "done" => resp = FinalResponse(impl, processEnv, req, upstreamRes)

\* The status of a response and the kind of its body.
KindOf(r) ==
  [status |-> r.status,
   body |-> IF r.thrown # NoError THEN "none"
            ELSE IF r.stream THEN "event stream"
            ELSE IF r.error # NoError THEN "error"
            ELSE "content"]

\* C34 as claimed: the three dispatchers are observationally equivalent:
\* for the request answered, the same environment and the same behaviour of
\* the upstream, each of them returns the status and the kind of body that
\* the one that ran returned.
C34_Original ==
  (pc = "done" /\ req.parsed) =>
    \A i \in Impls :
      KindOf(FinalResponse(i, processEnv, req, upstreamRes)) = KindOf(resp)

\* The Express server answered a streaming request whose upstream refused
\* with a 500 JSON error; on the same the Pages function returns no
\* response at all.
C34_Witness ==
  /\ impl = "express"
  /\ pc = "done"
  /\ req.stream = "true"
  /\ upstreamReq.sent /\ upstreamRes.reached /\ ~upstreamRes.ok
  /\ KindOf(resp) = [status |-> 500, body |-> "error"]
  /\ KindOf(FinalResponse("pages", processEnv, req, upstreamRes)) = [status |-> 0, body |-> "none"]

\* The Pages function and the Express server answer alike, but for the
\* streaming requests that fail before the stream begins.
GatedDispatchersAlike ==
  (pc = "done" /\ req.parsed /\ resp.thrown = NoError
     /\ ~(req.stream = "true" /\ resp.status = 500)) =>
    KindOf(FinalResponse("pages", processEnv, req, upstreamRes))
      = KindOf(FinalResponse("express", processEnv, req, upstreamRes))

----------------------------------------------------------------------------
(* Properties of the client's callbacks.                                   *)

\* C36: in streamChat the accumulated argument of every call of onChunk is
\* the concatenation, in order, of the chunks given to onChunk so far, the
\* current one included; after a complete read the string returned is the
\* last accumulated value, empty if there was no chunk, and onComplete has
\* been called exactly once, with that string, after the last onChunk; it
\* is not called before the read is complete nor when reading throws.
C36_AccumulatedAndComplete ==
  /\ Len(client.accumulated) = Len(client.chunks)
  /\ \A k \in 1..Len(client.chunks) :
       client.accumulated[k] = Flat(SubSeq(client.chunks, 1, k))
  /\ client.pc = "returned" =>
       /\ client.result = (IF client.chunks = <<>> THEN <<>>
                           ELSE client.accumulated[Len(client.accumulated)])
       /\ client.completions = <<client.result>>
  /\ client.pc # "returned" => client.completions = <<>>

\* Two frames were read and the call returned: onChunk saw A, then AB, and
\* onComplete AB.
C36_Witness ==
  /\ client.pc = "returned"
  /\ client.chunks = <<<<"A">>, <<"B">>>>
  /\ client.accumulated = <<<<"A">>, <<"A", "B">>>>
  /\ client.completions = <<<<"A", "B">>>>
  /\ client.result = <<"A", "B">>

----------------------------------------------------------------------------
(* Properties of the quota service, the repository and the toast store.    *)

\* C37: the quota service counts per date: getUsedCount is the number of
\* consumeQuota calls made on the current date; an item of another date or
\* one that does not parse, like no item, reads as 0 used; the first
\* consumeQuota of a date stores used = 1 for that date; getRemainingCount
\* is max(0, dailyQuota - used) and never negative.
C37_QuotaPerDate ==
  quota.today > 0 =>
    /\ getUsedCount(quota) = quota.consumed
    /\ (~quota.stored.present \/ ~quota.stored.json \/ quota.stored.date # quota.today)
         => getUsedCount(quota) = 0
    /\ quota.consumed = 1 =>
         quota.stored = [present |-> TRUE, json |-> TRUE, date |-> quota.today, used |-> 1]
    /\ getRemainingCount(quota) >= 0
    /\ getRemainingCount(quota) + quota.consumed >= getDailyQuota(quota)
    /\ getRemainingCount(quota) > 0 =>
         getRemainingCount(quota) + quota.consumed = getDailyQuota(quota)

\* On the third day, after the item had been written on an earlier one, the
\* third call of the day went beyond the quota of 2: nothing remains.
C37_Witness ==
  /\ quota.today = 3
  /\ quota.consumed = 3
  /\ quota.stored.date = 3 /\ quota.stored.used = 3
  /\ getDailyQuota(quota) = 2
  /\ getRemainingCount(quota) = 0

\* What delete(id) leaves of the tables it found.
AfterDelete(before, id) ==
  [projects |-> before.projects \ {id},
   versions |-> {v \in before.versions : v.projectId # id}]

\* C38: delete(id) removes the project and every version history of it in
\* one transaction and leaves the others as they were: outside the
\* transaction the tables are seen as they were before it until it
\* commits, and after that without the project and all of its versions;
\* never with the one gone and the other left.
C38_DeleteIsAtomic ==
  /\ repo.tx.step \in {"begun", "versionsDeleted", "projectDeleted", "aborted"}
       => Tables(repo) = repo.tx.before
  /\ repo.tx.step = "committed" =>
       /\ Tables(repo) = AfterDelete(repo.tx.before, repo.tx.id)
       /\ repo.tx.id \notin repo.projects
       /\ \A v \in repo.versions : v.projectId # repo.tx.id
       /\ \A v \in repo.tx.before.versions : v.projectId # repo.tx.id => v \in repo.versions
       /\ repo.projects \cup {repo.tx.id} = repo.tx.before.projects \cup {repo.tx.id}

\* The project p1 was deleted with its two versions; p2 and its version
\* are left.
C38_Witness ==
  /\ repo.tx.step = "committed"
  /\ repo.tx.id = "p1"
  /\ repo.tx.before.projects = {"p1", "p2"}
  /\ repo.tx.before.versions = VersionRecords
  /\ repo.projects = {"p2"}
  /\ repo.versions = {[id |-> "v3", projectId |-> "p2"]}

\* C39 as claimed: a toast is gone once its timer has fired, and every
\* removal, by removeToast or by a timer, removes exactly the one toast it
\* was issued for and leaves the others in their order: no step takes more
\* than one toast from the list.
C39_Original ==
  [][/\ Len(toast'.toasts) >= Len(toast.toasts) - 1
     /\ Len(toast'.timers) < Len(toast.timers) =>
          \A k \in 1..Len(toast'.toasts) : toast'.toasts[k].id # Head(toast.timers).id]_vars

\* Two toasts were added in the same millisecond; one removal emptied the
\* list.
C39_Witness ==
  /\ toast.added = 2
  /\ toast.removals = 1
  /\ toast.toasts = <<>>
  /\ Len(toast.timers) = 2
  /\ toast.timers[1].id = toast.timers[2].id

\* Toasts added at different milliseconds are removed one by one: while
\* the ids in the list differ, a removal takes exactly one toast.
DistinctIdsRemovedOneByOne ==
  [][(/\ \A j, k \in 1..Len(toast.toasts) : j # k => toast.toasts[j].id # toast.toasts[k].id
      /\ toast'.removals > toast.removals
      /\ Len(toast'.toasts) # Len(toast.toasts))
       => Len(toast'.toasts) = Len(toast.toasts) - 1]_vars

====
